---- MODULE Spec2Model ----
(***************************************************************************)
(* A model of the ECU programming and diagnostics protocol layer of        *)
(* can_communication.py: the bus transport (CANCommunication), the         *)
(* firmware bootloader (BootloaderProtocol), the board catalog (BoardData) *)
(* and the RetainVar read/write engine (RetainVarMonitor).                 *)
(*                                                                         *)
(* Python's None is modelled as the empty tuple and a present value x as   *)
(* the one-element tuple <<x>>.  Python integers wider than 31 bits are    *)
(* modelled as pairs of a high part and a 16-bit low part (see Wide).      *)
(***************************************************************************)
EXTENDS Integers, Sequences, FiniteSets, TLC

VARIABLES
    bus,            \* CANCommunication.bus: None or <<"Bus">>, an open endpoint
    is_connected,   \* CANCommunication.is_connected
    message_filter, \* CANCommunication.message_filter: None or <<filter>>
    rxq,            \* frames waiting in the endpoint's inbound queue
    upload_step,    \* BootloaderProtocol.upload_step
    pic_address,    \* BootloaderProtocol.pic_address
    data_bytes,     \* BootloaderProtocol.data_bytes: None or <<list of words>>
    data_ptr,       \* BootloaderProtocol.data_ptr: None or <<int>>
    pc,             \* position inside program_device ("idle" outside it)
    pd_dev,         \* program_device's device_id argument
    pd_i,           \* program_device's inner loop counter i
    current_board,  \* RetainVarMonitor.current_board: None or <<board_type>>
    rv_pc,          \* position inside read_variable ("idle" outside it)
    rv_args,        \* arguments of the call: of a read, a write, a lookup or a load
    call,           \* the API call in progress, or the last one completed
    sent,           \* frames the transport transmitted during that call
    results,        \* results of the sends made during that call
    msg_failed,     \* some send_message of that call did not return ERR_OK
    recvs,          \* results of the receive_message calls made during that call
    inner,          \* Bus(), bus.shutdown and load_hex_file as that call made them
    stale,          \* frames waiting in the inbound queue when that call began
    returned        \* what that call returned ("pending" while it runs)

transport == <<bus, is_connected, message_filter>>
boot      == <<upload_step, pic_address, data_bytes, data_ptr>>
pdpos     == <<pc, pd_dev, pd_i>>
retain    == <<current_board, rv_pc, rv_args>>
history   == <<call, sent, results, msg_failed, recvs, inner, stale, returned>>
vars      == <<transport, rxq, boot, pdpos, retain, history>>

----------------------------------------------------------------------------
(* Bounds of the model *)

MaxLines == 2       \* lines of a firmware image file
MaxWords == 2       \* words of one data record
MaxQueue == 2       \* frames the inbound queue holds
MaxBoardIndex == 2  \* largest board_index tried

None == <<>>
Some(x) == <<x>>
Val(o) == o[1]

ERR_OK == "ERR_OK"
ERR_XMTFULL == "ERR_XMTFULL"
ERR_OVERRUN == "ERR_OVERRUN"
ERR_QRCVEMPTY == "ERR_QRCVEMPTY"
ERR_ILLHW == "ERR_ILLHW"
ERR_RESOURCE == "ERR_RESOURCE"
ERR_PARMVAL == "ERR_PARMVAL"

Zeros(n) == [k \in 1..n |-> 0]

CANMessage(id, data) == [id |-> id, data |-> data]

----------------------------------------------------------------------------
(* CANCommunication *)

\* a mutant of send_message: only the handle is tested, not is_connected
send_message_BusOnly(message, accept) ==
    IF bus = None THEN ERR_ILLHW
    ELSE IF accept THEN ERR_OK
    ELSE ERR_XMTFULL

\* send_message's result; accept says whether bus.send returns (TRUE) or raises
send_message(message, accept) ==
    IF ~is_connected \/ bus = None THEN ERR_ILLHW
    ELSE IF accept THEN ERR_OK
    ELSE ERR_XMTFULL

\* the history of one send_message: the frame is on the bus iff the result is ERR_OK
Transmit(message, res) ==
    /\ sent' = IF res = ERR_OK THEN Append(sent, message) ELSE sent
    /\ msg_failed' = (msg_failed \/ res # ERR_OK)

BeginCall(name) ==
    /\ call' = name
    /\ recvs' = <<>>
    /\ stale' = Len(rxq)
    /\ inner' = <<>>

\* one call made inside an API call, and how it ended
Inner(op, ok) == [op |-> op, ok |-> ok]

NewCall(name) ==
    /\ BeginCall(name)
    /\ sent' = <<>> /\ results' = <<>> /\ msg_failed' = FALSE

\* the same for a call that made the inner calls entries
Logged(name, entries) ==
    /\ call' = name
    /\ recvs' = <<>>
    /\ stale' = Len(rxq)
    /\ inner' = entries
    /\ sent' = <<>> /\ results' = <<>> /\ msg_failed' = FALSE

\* a mutant of connect: a failed open leaves is_connected as it was
connect_KeepsFlag ==
    /\ pc = "idle" /\ rv_pc = "idle"
    /\ \E opens \in BOOLEAN :
         /\ Logged("connect", <<Inner("Bus", opens)>>)
         /\ IF opens
            THEN /\ bus' = Some("Bus")
                 /\ rxq' = <<>>
                 /\ is_connected' = TRUE
                 /\ returned' = Some(ERR_OK)
            ELSE /\ returned' = Some(ERR_ILLHW)
                 /\ UNCHANGED <<bus, rxq, is_connected>>
    /\ UNCHANGED <<message_filter, boot, pdpos, retain>>

\* connect: can.interface.Bus either returns a new endpoint, whose inbound
\* queue is empty, or raises
connect ==
    /\ pc = "idle" /\ rv_pc = "idle"
    /\ \E opens \in BOOLEAN :
         /\ Logged("connect", <<Inner("Bus", opens)>>)
         /\ IF opens
            THEN /\ bus' = Some("Bus")
                 /\ rxq' = <<>>
                 /\ is_connected' = TRUE
                 /\ returned' = Some(ERR_OK)
            ELSE /\ is_connected' = FALSE
                 /\ returned' = Some(ERR_ILLHW)
                 /\ UNCHANGED <<bus, rxq>>
    /\ UNCHANGED <<message_filter, boot, pdpos, retain>>

\* a mutant of disconnect: shutdown is called without the test of the
\* handle, and on None it raises
disconnect_AlwaysShutdown ==
    /\ pc = "idle" /\ rv_pc = "idle"
    /\ IF bus # None
       THEN \E shuts \in BOOLEAN :
              /\ Logged("disconnect", <<Inner("shutdown", shuts)>>)
              /\ IF shuts
                 THEN /\ bus' = None
                      /\ rxq' = <<>>
                      /\ is_connected' = FALSE
                      /\ returned' = Some(ERR_OK)
                 ELSE /\ returned' = Some(ERR_RESOURCE)
                      /\ UNCHANGED <<bus, is_connected, rxq>>
       ELSE /\ Logged("disconnect", <<>>)
            /\ returned' = Some(ERR_RESOURCE)
            /\ UNCHANGED <<bus, is_connected, rxq>>
    /\ UNCHANGED <<message_filter, boot, pdpos, retain>>

\* disconnect: with a handle, bus.shutdown is called and either returns or
\* raises; without one nothing is shut down
disconnect ==
    /\ pc = "idle" /\ rv_pc = "idle"
    /\ IF bus # None
       THEN \E shuts \in BOOLEAN :
              /\ Logged("disconnect", <<Inner("shutdown", shuts)>>)
              /\ IF shuts
                 THEN /\ bus' = None
                      /\ rxq' = <<>>
                      /\ is_connected' = FALSE
                      /\ returned' = Some(ERR_OK)
                 ELSE /\ returned' = Some(ERR_RESOURCE)
                      /\ UNCHANGED <<bus, is_connected, rxq>>
       ELSE /\ Logged("disconnect", <<>>)
            /\ is_connected' = FALSE
            /\ returned' = Some(ERR_OK)
            /\ UNCHANGED <<bus, rxq>>
    /\ UNCHANGED <<message_filter, boot, pdpos, retain>>

\* the (result, message, timestamp) that receive_message returns
Received(result, message, timestamp) ==
    [result |-> result, message |-> message, timestamp |-> timestamp]

\* receive_message: what bus.recv gives.  With a frame waiting it returns the
\* first one, with none it times out; raises tells whether it raises instead.
\* The timestamp is that of the frame; only its presence is modelled.
receive_message(raises) ==
    IF ~is_connected \/ bus = None THEN Received(ERR_ILLHW, None, None)
    ELSE IF raises THEN Received(ERR_OVERRUN, None, None)
    ELSE IF rxq = <<>> THEN Received(ERR_QRCVEMPTY, None, None)
    ELSE Received(ERR_OK, Some(Head(rxq)), Some("CANTimestamp"))

\* get_status
get_status == IF ~is_connected THEN ERR_ILLHW ELSE ERR_OK

\* send_message called on its own
API_send_message(Messages) ==
    /\ pc = "idle" /\ rv_pc = "idle"
    /\ \E message \in Messages, accept \in BOOLEAN :
         LET result == send_message(message, accept) IN
         /\ sent' = IF result = ERR_OK THEN <<message>> ELSE <<>>
         /\ results' = <<result>>
         /\ msg_failed' = (result # ERR_OK)
         /\ returned' = Some(result)
    /\ BeginCall("send_message")
    /\ UNCHANGED <<transport, rxq, boot, pdpos, retain>>

\* receive_message called on its own
API_receive_message ==
    /\ pc = "idle" /\ rv_pc = "idle"
    /\ \E raises \in BOOLEAN :
         LET r == receive_message(raises) IN
         /\ recvs' = <<r>>
         /\ rxq' = IF r.message # None THEN Tail(rxq) ELSE rxq
         /\ returned' = Some(r)
    /\ call' = "receive_message"
    /\ stale' = Len(rxq) /\ inner' = <<>>
    /\ sent' = <<>> /\ results' = <<>> /\ msg_failed' = FALSE
    /\ UNCHANGED <<transport, boot, pdpos, retain>>

\* set_message_filter: the filter is stored, the endpoint is not touched
API_set_message_filter(FromIds, ToIds, MsgTypes) ==
    /\ pc = "idle" /\ rv_pc = "idle"
    /\ \E from_id \in FromIds, to_id \in ToIds, msg_type \in MsgTypes :
         message_filter' = Some([from_id |-> from_id, to_id |-> to_id,
                                 msg_type |-> msg_type])
    /\ returned' = Some(ERR_OK)
    /\ NewCall("set_message_filter")
    /\ UNCHANGED <<bus, is_connected, rxq, boot, pdpos, retain>>

\* get_status called on its own
API_get_status ==
    /\ pc = "idle" /\ rv_pc = "idle"
    /\ returned' = Some(get_status)
    /\ NewCall("get_status")
    /\ UNCHANGED <<transport, rxq, boot, pdpos, retain>>

----------------------------------------------------------------------------
(* BootloaderProtocol *)

MaxStep == 6        \* standalone sends stop once upload_step reaches this

DeviceIds == {768, 1792}
Addresses == {0, 64, 4660, 74565}

\* the j-th word of the images tried (0x1234, 0xABCD, 0x00FF in turn)
WordAt(j) == <<4660, 43981, 255>>[(j % 3) + 1]

\* the words of a data record of n words whose first word is WordAt(j)
RecordWords(j, n) == [k \in 1..n |-> WordAt(j + k - 1)]

\* The characters of an image file are one-character strings and a line is
\* a tuple of them.
HexDigits ==
    <<"0", "1", "2", "3", "4", "5", "6", "7",
      "8", "9", "A", "B", "C", "D", "E", "F">>

\* n written as `width` hexadecimal digits
Hex(n, width) ==
    [k \in 1..width |-> HexDigits[((n \div (16 ^ (width - k))) % 16) + 1]]

\* the words of a record written as 4 hexadecimal digits each
RECURSIVE HexWords(_)
HexWords(words) ==
    IF words = <<>> THEN <<>> ELSE Hex(Head(words), 4) \o HexWords(Tail(words))

\* the sum of the two bytes of every word
RECURSIVE SumBytes(_)
SumBytes(words) ==
    IF words = <<>> THEN 0
    ELSE (Head(words) \div 256) + (Head(words) % 256) + SumBytes(Tail(words))

\* An Intel HEX record at address 0: ':', byte count, address, record type,
\* payload, and (when closed) the checksum and the end of the line.
HexRecord(byte_count, record_type, words, tail, closed) ==
    LET sum == byte_count + record_type + SumBytes(words) + SumBytes(tail)
    IN <<":">> \o Hex(byte_count, 2) \o Hex(0, 4) \o Hex(record_type, 2)
       \o HexWords(words) \o [k \in 1..(2 * Len(tail)) |-> Hex(tail[1], 2)[k]]
       \o (IF closed THEN Hex((256 - (sum % 256)) % 256, 2) ELSE <<>>)
       \o <<"\n">>

\* The text of a line of an image file.  "blank" is an empty line, "comment"
\* a line that does not start with ':', "data" a type-0 record of its words,
\* "eof" a type-1 record, "other" a type-4 record, "odd" a type-0 record of
\* its words and one byte more, "nothex" a record whose byte count is not
\* hexadecimal, "short" a type-0 record that declares one word more than its
\* payload holds, "cut" the same record with the line ending after the payload.
Text(line) ==
    CASE line.kind = "blank"   -> <<"\n">>
      [] line.kind = "comment" -> <<";", "1", "2", "\n">>
      [] line.kind = "data"    ->
            HexRecord(2 * Len(line.words), 0, line.words, <<>>, TRUE)
      [] line.kind = "eof"     -> HexRecord(0, 1, <<>>, <<>>, TRUE)
      [] line.kind = "other"   -> HexRecord(2, 4, <<0>>, <<>>, TRUE)
      [] line.kind = "odd"     ->
            HexRecord(2 * Len(line.words) + 1, 0, line.words, <<127>>, TRUE)
      [] line.kind = "nothex"  -> <<":", "0", "G", "0", "0", "0", "0", "0", "0", "\n">>
      [] line.kind = "short"   ->
            HexRecord(2 * Len(line.words) + 2, 0, line.words, <<>>, TRUE)
      [] line.kind = "cut"     ->
            HexRecord(2 * Len(line.words) + 2, 0, line.words, <<>>, FALSE)

\* the lines of the images uploaded
ImageLines ==
    {[kind |-> k, words |-> <<>>] : k \in {"eof", "nothex"}}
    \cup {[kind |-> "data", words |-> RecordWords(0, n)] : n \in 1..MaxWords}

\* the lines of the images loaded on their own
Lines ==
    ImageLines
    \cup {[kind |-> k, words |-> <<>>] : k \in {"blank", "comment", "other"}}
    \cup {[kind |-> k, words |-> RecordWords(0, 1)] : k \in {"odd", "short", "cut"}}

\* an unreadable file, and the files of up to MaxLines of these lines
FilesOf(lines) ==
    {[readable |-> FALSE, lines |-> <<>>]}
    \cup {[readable |-> TRUE, lines |-> l] :
            l \in UNION {[1..k -> lines] : k \in 0..MaxLines}}

Images == FilesOf(ImageLines)
Files == FilesOf(Lines)

Whitespace == {" ", "\t", "\r", "\n"}

\* str.strip()
strip(s) ==
    LET keep == {i \in 1..Len(s) : s[i] \notin Whitespace} IN
    IF keep = {} THEN <<>>
    ELSE SubSeq(s, CHOOSE i \in keep : \A j \in keep : i <= j,
                   CHOOSE i \in keep : \A j \in keep : i >= j)

\* s[a:b] for 0 <= a <= b: the slice stops where the string does
Slice(s, a, b) == SubSeq(s, a + 1, IF b < Len(s) THEN b ELSE Len(s))

\* the value of a hexadecimal digit, -1 for any other character
HexValue(c) ==
    CASE c \in {"0"} -> 0  [] c \in {"1"} -> 1  [] c \in {"2"} -> 2
      [] c \in {"3"} -> 3  [] c \in {"4"} -> 4  [] c \in {"5"} -> 5
      [] c \in {"6"} -> 6  [] c \in {"7"} -> 7  [] c \in {"8"} -> 8
      [] c \in {"9"} -> 9
      [] c \in {"A", "a"} -> 10  [] c \in {"B", "b"} -> 11
      [] c \in {"C", "c"} -> 12  [] c \in {"D", "d"} -> 13
      [] c \in {"E", "e"} -> 14  [] c \in {"F", "f"} -> 15
      [] OTHER -> -1

\* int(s, 16) of a string of digits, letters and white space: None when it
\* raises ValueError (nothing between the white space, or a character that is
\* no hexadecimal digit)
RECURSIVE HexNumber(_, _, _)
HexNumber(t, k, acc) ==
    IF k > Len(t) THEN acc ELSE HexNumber(t, k + 1, 16 * acc + HexValue(t[k]))

int16(s) ==
    LET t == strip(s) IN
    IF t = <<>> \/ \E k \in 1..Len(t) : HexValue(t[k]) < 0
    THEN None
    ELSE Some(HexNumber(t, 1, 0))

\* "for i in range(byte_count // 2)" of load_hex_file from i on: the words
\* appended, and whether int() raised
RECURSIVE ParseWords(_, _, _, _, _)
ParseWords(line, i, n, data_start, acc) ==
    IF i >= n THEN [raised |-> FALSE, words |-> acc]
    ELSE LET word == int16(Slice(line, data_start, data_start + 4)) IN
         IF word = None THEN [raised |-> TRUE, words |-> acc]
         ELSE ParseWords(line, i + 1, n, data_start + 4, Append(acc, Val(word)))

\* a mutant of ParseLines: a line on which int() raises is skipped
RECURSIVE ParseLines_SkipsMalformed(_, _, _)
ParseLines_SkipsMalformed(lines, k, acc) ==
    IF k > Len(lines) THEN [ok |-> TRUE, words |-> acc]
    ELSE LET line == strip(Text(lines[k])) IN
         IF line = <<>> \/ line[1] # ":"
         THEN ParseLines_SkipsMalformed(lines, k + 1, acc)
         ELSE LET byte_count == int16(Slice(line, 1, 3))
                  address == int16(Slice(line, 3, 7))
                  record_type == int16(Slice(line, 7, 9))
              IN IF byte_count = None \/ address = None \/ record_type = None
                 THEN ParseLines_SkipsMalformed(lines, k + 1, acc)
                 ELSE IF Val(record_type) = 0
                 THEN LET w == ParseWords(line, 0, Val(byte_count) \div 2, 9, acc)
                      IN ParseLines_SkipsMalformed(lines, k + 1,
                             IF w.raised THEN acc ELSE w.words)
                 ELSE IF Val(record_type) = 1
                 THEN [ok |-> TRUE, words |-> acc]
                 ELSE ParseLines_SkipsMalformed(lines, k + 1, acc)

\* the loop of load_hex_file over the lines from the k-th on
RECURSIVE ParseLines(_, _, _)
ParseLines(lines, k, acc) ==
    IF k > Len(lines) THEN [ok |-> TRUE, words |-> acc]
    ELSE LET line == strip(Text(lines[k])) IN
         IF line = <<>> \/ line[1] # ":" THEN ParseLines(lines, k + 1, acc)
         ELSE LET byte_count == int16(Slice(line, 1, 3))
                  address == int16(Slice(line, 3, 7))
                  record_type == int16(Slice(line, 7, 9))
              IN IF byte_count = None \/ address = None \/ record_type = None
                 THEN [ok |-> FALSE, words |-> acc]
                 ELSE IF Val(record_type) = 0
                 THEN LET w == ParseWords(line, 0, Val(byte_count) \div 2, 9, acc)
                      IN IF w.raised THEN [ok |-> FALSE, words |-> w.words]
                         ELSE ParseLines(lines, k + 1, w.words)
                 ELSE IF Val(record_type) = 1
                 THEN [ok |-> TRUE, words |-> acc]
                 ELSE ParseLines(lines, k + 1, acc)

\* a mutant of load_hex_file: the buffer is not emptied first, and the words
\* of the file are added to those of the image loaded before
load_hex_file_Appends(file) ==
    LET before == IF data_bytes = None THEN <<>> ELSE Val(data_bytes) IN
    IF ~file.readable
    THEN [ok |-> FALSE, data_bytes |-> Some(before), data_ptr |-> data_ptr]
    ELSE LET p == ParseLines(file.lines, 1, before) IN
         IF p.ok
         THEN [ok |-> TRUE, data_bytes |-> Some(p.words), data_ptr |-> Some(0)]
         ELSE [ok |-> FALSE, data_bytes |-> Some(p.words), data_ptr |-> data_ptr]

\* what the loop of load_hex_file makes of each file, worked out once
ParsedFiles == [file \in Files |-> ParseLines(file.lines, 1, <<>>)]

\* load_hex_file: the return value and the fields it leaves
load_hex_file(file) ==
    IF ~file.readable
    THEN [ok |-> FALSE, data_bytes |-> Some(<<>>), data_ptr |-> data_ptr]
    ELSE LET p == ParsedFiles[file] IN
         IF p.ok
         THEN [ok |-> TRUE, data_bytes |-> Some(p.words), data_ptr |-> Some(0)]
         ELSE [ok |-> FALSE, data_bytes |-> Some(p.words), data_ptr |-> data_ptr]

\* send_command: the frame, the result and the step counter it leaves
send_command(command_id, accept) ==
    LET message == CANMessage(command_id, Zeros(8))
        result == send_message(message, accept)
    IN [result |-> result, message |-> Some(message),
        upload_step |-> IF result = ERR_OK THEN upload_step + 1 ELSE 0,
        pic_address |-> pic_address, data_ptr |-> data_ptr]

\* a mutant of send_address: the high byte of the address comes first
send_address_BigEndian(address_id, address, accept) ==
    LET message == CANMessage(address_id,
                       <<(address \div 256) % 256, address % 256>> \o Zeros(6))
        result == send_message(message, accept)
    IN [result |-> result, message |-> Some(message),
        upload_step |-> IF result = ERR_OK THEN upload_step + 1 ELSE 0,
        pic_address |-> pic_address, data_ptr |-> data_ptr]

\* send_address
send_address(address_id, address, accept) ==
    LET message == CANMessage(address_id,
                       <<address % 256, (address \div 256) % 256>> \o Zeros(6))
        result == send_message(message, accept)
    IN [result |-> result, message |-> Some(message),
        upload_step |-> IF result = ERR_OK THEN upload_step + 1 ELSE 0,
        pic_address |-> pic_address, data_ptr |-> data_ptr]

\* a mutant of NoCursor: only a missing cursor is refused
NoCursor_OnlyNone(ptr) == ptr = None

\* "not self.data_ptr": None and 0 are both false in Python
NoCursor(ptr) == ptr = None \/ Val(ptr) = 0

\* "not self.data_bytes": None and the empty list are both false in Python
NoImage(bytes) == bytes = None \/ Val(bytes) = <<>>

\* the loop of send_data from i on: the payload, the cursor, and whether
\* words[ptr] raised IndexError (a negative ptr indexes from the end)
RECURSIVE FillData(_, _, _, _)
FillData(i, ptr, words, data) ==
    IF i = 8 THEN [data |-> data, ptr |-> ptr, raised |-> FALSE]
    ELSE IF ptr < Len(words)
         THEN IF ptr < 0 - Len(words)
              THEN [data |-> data, ptr |-> ptr, raised |-> TRUE]
              ELSE LET word == IF ptr >= 0 THEN words[ptr + 1]
                                           ELSE words[Len(words) + ptr + 1]
                   IN IF i % 2 = 0
                      THEN FillData(i + 1, ptr, words, Append(data, word % 256))
                      ELSE FillData(i + 1, ptr + 1, words,
                                    Append(data, (word \div 256) % 256))
         ELSE FillData(i + 1, ptr, words, Append(data, 255))

\* send_data
send_data(data_id, accept) ==
    IF NoCursor(data_ptr) \/ NoImage(data_bytes)
    THEN [result |-> ERR_PARMVAL, message |-> None, upload_step |-> upload_step,
          pic_address |-> pic_address, data_ptr |-> data_ptr]
    ELSE LET f == FillData(0, Val(data_ptr), Val(data_bytes), <<>>)
             message == CANMessage(data_id, f.data)
             result == send_message(message, accept)
             addr_offset == f.ptr * 2
             boundary == addr_offset % 64 = 0
         IN IF f.raised
            THEN [result |-> "IndexError", message |-> None,
                  upload_step |-> upload_step, pic_address |-> pic_address,
                  data_ptr |-> Some(f.ptr)]
            ELSE IF result = ERR_OK
            THEN [result |-> result, message |-> Some(message),
                  upload_step |-> IF boundary THEN upload_step - 1 ELSE upload_step,
                  pic_address |-> IF boundary THEN pic_address + 64 ELSE pic_address,
                  data_ptr |-> Some(f.ptr)]
            ELSE [result |-> result, message |-> Some(message),
                  upload_step |-> upload_step, pic_address |-> pic_address,
                  data_ptr |-> Some(f.ptr - 8)]

\* what one send_command/send_address/send_data leaves in the call's history
Record(e) ==
    /\ results' = Append(results, e.result)
    /\ IF e.message = None
       THEN UNCHANGED <<sent, msg_failed>>
       ELSE Transmit(Val(e.message), e.result)

\* Every field of the session after one send
Leave(e) ==
    /\ upload_step' = e.upload_step
    /\ pic_address' = e.pic_address
    /\ data_ptr' = e.data_ptr
    /\ Record(e)

\* a mutant of Aborts: only a full transmit queue aborts the upload
Aborts_OnlyQueueFull(result) == result = ERR_XMTFULL

\* "if <send> != CANResult.ERR_OK: return False" in program_device
Aborts(result) == result # ERR_OK

\* a mutant of LoopCond: the comparison reversed
LoopCond_Reversed == Val(data_ptr) > Len(Val(data_bytes))

\* "while self.data_ptr < len(self.data_bytes)" in program_device
LoopCond == Val(data_ptr) < Len(Val(data_bytes))

Return(v) == pc' = "idle" /\ pd_i' = 0 /\ returned' = Some(v)

\* a call left by an exception instead of a return
Raised(exception) == <<"raised", exception>>

\* a send that raised leaves program_device by the exception
Outcome(e, next) ==
    IF e.result = "IndexError"
    THEN pc' = "idle" /\ pd_i' = 0 /\ returned' = Raised("IndexError")
    ELSE IF Aborts(e.result) THEN Return(FALSE)
    ELSE next

\* a mutant of PD_Load: what load_hex_file returned is not tested
PD_Load_Unchecked(files) ==
    /\ pc = "idle" /\ rv_pc = "idle"
    /\ \E device_id \in DeviceIds, hex_file \in files :
         LET l == load_hex_file(hex_file) IN
         /\ Logged("program_device", <<Inner("load_hex_file", l.ok)>>)
         /\ data_bytes' = l.data_bytes
         /\ data_ptr' = l.data_ptr
         /\ pd_dev' = device_id
         /\ pc' = "reset" /\ returned' = None
    /\ UNCHANGED <<transport, rxq, upload_step, pic_address, pd_i, retain>>

\* program_device of one of these files, entry: load_hex_file
PD_Load(files) ==
    /\ pc = "idle" /\ rv_pc = "idle"
    /\ \E device_id \in DeviceIds, hex_file \in files :
         LET l == load_hex_file(hex_file) IN
         /\ Logged("program_device", <<Inner("load_hex_file", l.ok)>>)
         /\ data_bytes' = l.data_bytes
         /\ data_ptr' = l.data_ptr
         /\ pd_dev' = device_id
         /\ IF l.ok THEN pc' = "reset" /\ returned' = None
                    ELSE pc' = "idle" /\ returned' = Some(FALSE)
    /\ UNCHANGED <<transport, rxq, upload_step, pic_address, pd_i, retain>>

\* a mutant of PD_Reset: the step counter drives the upload, and the reset
\* command is skipped when the counter is not at 0
PD_Reset_ByStep ==
    /\ pc = "reset"
    /\ IF upload_step > 0
       THEN /\ pc' = "start"
            /\ UNCHANGED <<boot, pd_i, returned, sent, results, msg_failed>>
       ELSE \E accept \in BOOLEAN :
              LET e == send_command(pd_dev + 0, accept) IN
              /\ Leave(e)
              /\ data_bytes' = data_bytes
              /\ Outcome(e, pc' = "start" /\ UNCHANGED <<pd_i, returned>>)
    /\ UNCHANGED <<transport, rxq, pd_dev, retain, call, recvs, inner, stale>>

\* program_device: send_command(device_id + 0)
PD_Reset ==
    /\ pc = "reset"
    /\ \E accept \in BOOLEAN :
         LET e == send_command(pd_dev + 0, accept) IN
         /\ Leave(e)
         /\ Outcome(e, pc' = "start" /\ UNCHANGED <<pd_i, returned>>)
    /\ UNCHANGED <<transport, rxq, data_bytes, pd_dev, retain, call, recvs, inner, stale>>

\* program_device: send_command(device_id + 2), then pic_address = 0, upload_step = 4
PD_StartLoad ==
    /\ pc = "start"
    /\ \E accept \in BOOLEAN :
         LET e == send_command(pd_dev + 2, accept) IN
         /\ Record(e)
         /\ data_ptr' = e.data_ptr
         /\ IF Aborts(e.result)
            THEN /\ upload_step' = e.upload_step
                 /\ pic_address' = e.pic_address
                 /\ Return(FALSE)
            ELSE /\ upload_step' = 4
                 /\ pic_address' = 0
                 /\ pc' = "loop"
                 /\ UNCHANGED <<pd_i, returned>>
    /\ UNCHANGED <<transport, rxq, data_bytes, pd_dev, retain, call, recvs, inner, stale>>

\* a mutant of PD_Loop: while the test holds the loop goes round without
\* running its body
PD_Loop_NoProgress ==
    /\ pc = "loop"
    /\ pc' = IF LoopCond THEN "loop" ELSE "verify"
    /\ UNCHANGED <<transport, rxq, boot, pd_dev, pd_i, retain, history>>

\* program_device: the test of the while loop
PD_Loop ==
    /\ pc = "loop"
    /\ pc' = IF LoopCond THEN "addr" ELSE "verify"
    /\ UNCHANGED <<transport, rxq, boot, pd_dev, pd_i, retain, history>>

\* program_device: send_address(device_id + 3, pic_address)
PD_Address ==
    /\ pc = "addr"
    /\ \E accept \in BOOLEAN :
         LET e == send_address(pd_dev + 3, pic_address, accept) IN
         /\ Leave(e)
         /\ Outcome(e, pc' = "data" /\ pd_i' = 0 /\ UNCHANGED returned)
    /\ UNCHANGED <<transport, rxq, data_bytes, pd_dev, retain, call, recvs, inner, stale>>

\* program_device: one send_data(device_id + 4) of "for i in range(8)"
PD_Data ==
    /\ pc = "data"
    /\ \E accept \in BOOLEAN :
         LET e == send_data(pd_dev + 4, accept) IN
         /\ Leave(e)
         /\ Outcome(e, /\ pc' = IF pd_i = 7 THEN "loop" ELSE "data"
                       /\ pd_i' = IF pd_i = 7 THEN 0 ELSE pd_i + 1
                       /\ UNCHANGED returned)
    /\ UNCHANGED <<transport, rxq, data_bytes, pd_dev, retain, call, recvs, inner, stale>>

\* program_device: send_command(device_id + 5) and the return
PD_Verify ==
    /\ pc = "verify"
    /\ \E accept \in BOOLEAN :
         LET e == send_command(pd_dev + 5, accept) IN
         /\ Leave(e)
         /\ Outcome(e, Return(TRUE))
    /\ UNCHANGED <<transport, rxq, data_bytes, pd_dev, retain, call, recvs, inner, stale>>

\* load_hex_file called on its own with one of these files
API_load_hex_file(files) ==
    /\ pc = "idle" /\ rv_pc = "idle"
    /\ \E filename \in files :
         LET l == load_hex_file(filename) IN
         /\ data_bytes' = l.data_bytes
         /\ data_ptr' = l.data_ptr
         /\ returned' = Some(l.ok)
         /\ rv_args' = [filename |-> filename]
         /\ Logged("load_hex_file", <<Inner("load_hex_file", l.ok)>>)
    /\ UNCHANGED <<transport, rxq, upload_step, pic_address, pdpos,
                   current_board, rv_pc>>

\* send_command called on its own
API_send_command ==
    /\ pc = "idle" /\ rv_pc = "idle"
    /\ upload_step < MaxStep
    /\ \E device_id \in DeviceIds, off \in {0, 2, 5}, accept \in BOOLEAN :
         LET e == send_command(device_id + off, accept) IN
         /\ upload_step' = e.upload_step
         /\ sent' = IF e.result = ERR_OK THEN <<Val(e.message)>> ELSE <<>>
         /\ results' = <<e.result>>
         /\ msg_failed' = (e.result # ERR_OK)
         /\ returned' = Some(e.result)
    /\ BeginCall("send_command")
    /\ UNCHANGED <<transport, rxq, pic_address, data_bytes, data_ptr, pdpos, retain>>

\* send_address called on its own
API_send_address ==
    /\ pc = "idle" /\ rv_pc = "idle"
    /\ upload_step < MaxStep
    /\ \E device_id \in DeviceIds, address \in Addresses, accept \in BOOLEAN :
         LET e == send_address(device_id + 3, address, accept) IN
         /\ upload_step' = e.upload_step
         /\ sent' = IF e.result = ERR_OK THEN <<Val(e.message)>> ELSE <<>>
         /\ results' = <<e.result>>
         /\ msg_failed' = (e.result # ERR_OK)
         /\ returned' = Some(e.result)
         /\ rv_args' = [address_id |-> device_id + 3, address |-> address]
    /\ BeginCall("send_address")
    /\ UNCHANGED <<transport, rxq, pic_address, data_bytes, data_ptr, pdpos,
                   current_board, rv_pc>>

\* send_data called on its own
API_send_data ==
    /\ pc = "idle" /\ rv_pc = "idle"
    /\ \E device_id \in DeviceIds, accept \in BOOLEAN :
         LET e == send_data(device_id + 4, accept) IN
         /\ upload_step' = e.upload_step
         /\ pic_address' = e.pic_address
         /\ data_ptr' = e.data_ptr
         /\ sent' = IF e.result = ERR_OK THEN <<Val(e.message)>> ELSE <<>>
         /\ results' = <<e.result>>
         /\ msg_failed' = (e.message # None /\ e.result # ERR_OK)
         /\ returned' = IF e.result = "IndexError" THEN Raised("IndexError")
                                              ELSE Some(e.result)
    /\ BeginCall("send_data")
    /\ UNCHANGED <<transport, rxq, data_bytes, pdpos, retain>>

----------------------------------------------------------------------------
(* BoardData *)

TABLE_ADDR_MAX == 51

BOARD_CAN_ID_BASES ==
    [PCU |-> 768, TCU |-> 1024, WLU |-> 1280, OBD_DC_DC |-> 1536,
     CCU |-> 896, GATE |-> 1152, PDU |-> 1408, ZCU |-> 1664,
     VCU |-> 1792, SCU |-> 1920, FCU |-> 2048, BMS |-> 2176]

\* table_addr as _init_pcu_data sets it
_init_pcu_data ==
    <<0, 2, 6, 10, 14, 18, 19, 20, 21, 22,
      23, 27, 31, 35, 37, 39, 41, 43, 45, 47,
      51, 52, 53, 54, 55, 56, 57, 58, 60, 62,
      64, 66, 68, 70, 72, 74, 76, 77, 78, 79,
      80, 81, 82, 83, 84, 85, 87, 91, 95, 99,
      103>>

\* table_addr as _init_tcu_data sets it
_init_tcu_data ==
    <<0, 2, 6, 10, 14, 18, 19, 20, 21, 22,
      23, 27, 31, 35, 37, 39, 41, 43, 45, 47,
      51, 52, 53, 54, 55, 56, 57, 58, 60, 62,
      64, 66, 68, 70, 71, 73, 74, 76, 78, 80,
      82, 83, 84, 85, 86, 87, 88, 89, 90, 91,
      92>>

\* table_addr as _init_wlu_data sets it
_init_wlu_data ==
    <<0, 2, 6, 10, 14, 18, 19, 20, 21, 22,
      23, 27, 31, 35, 37, 39, 41, 43, 45, 47,
      51, 52, 53, 54, 55, 56, 57, 58, 59, 60,
      61, 62, 66, 70, 72, 74, 76, 77, 78, 79,
      80, 81, 82, 83, 84, 85, 86, 87, 88, 89,
      90>>

\* table_addr as _init_obd_dcdc_data sets it
_init_obd_dcdc_data ==
    <<0, 2, 6, 10, 14, 18, 19, 20, 21, 22,
      23, 27, 31, 35, 37, 39, 41, 43, 45, 47,
      51, 52, 53, 54, 55, 56, 57, 58, 60, 62,
      66, 70, 74, 75, 76, 77, 78, 79, 80, 81,
      82, 83, 84, 85, 86, 87, 88, 89, 90, 91,
      92>>

\* table_addr as _init_ccu_data sets it
_init_ccu_data ==
    <<0, 2, 6, 10, 14, 18, 19, 20, 21, 22,
      23, 27, 31, 35, 37, 39, 41, 43, 45, 47,
      51, 52, 53, 54, 55, 56, 57, 58, 59, 60,
      61, 62, 63, 64, 65, 66, 67, 68, 69, 70,
      71, 72, 73, 74, 75, 76, 77, 78, 79, 80,
      81>>

\* table_addr as _init_gate_data sets it
_init_gate_data ==
    <<0, 2, 6, 10, 14, 18, 19, 20, 21, 22,
      23, 27, 31, 35, 37, 39, 41, 43, 45, 47,
      51, 52, 53, 54, 55, 56, 57, 58, 62, 66,
      70, 74, 78, 82, 86, 90, 94, 98, 102, 106,
      110, 114, 118, 122, 123, 124, 125, 126, 127, 128,
      129>>

\* table_addr as _init_pdu_data sets it
_init_pdu_data ==
    <<0, 2, 6, 10, 14, 18, 19, 20, 21, 22,
      23, 27, 31, 35, 37, 39, 41, 43, 45, 47,
      51, 52, 53, 54, 55, 56, 57, 58, 59, 60,
      61, 62, 63, 64, 65, 66, 67, 68, 69, 70,
      71, 72, 73, 74, 75, 76, 77, 78, 79, 80,
      81>>

\* table_addr as _init_zcu_data sets it
_init_zcu_data ==
    <<0, 2, 6, 10, 14, 18, 19, 20, 21, 22,
      23, 27, 31, 35, 37, 39, 41, 43, 45, 47,
      51, 52, 53, 54, 55, 56, 57, 58, 59, 60,
      62, 63, 65, 66, 67, 68, 70, 72, 74, 75,
      76, 77, 78, 79, 80, 81, 82, 83, 84, 85,
      86>>

\* table_addr as _init_vcu_data sets it
_init_vcu_data ==
    <<0, 2, 6, 10, 14, 18, 19, 20, 21, 22,
      23, 27, 31, 35, 37, 39, 41, 43, 45, 47,
      51, 52, 53, 54, 55, 56, 57, 58, 59, 60,
      61, 63, 65, 67, 69, 71, 73, 74, 75, 76,
      77, 78, 79, 80, 81, 82, 83, 84, 85, 86,
      87>>

\* table_addr as _init_scu_data sets it
_init_scu_data ==
    <<0, 2, 6, 10, 14, 18, 19, 20, 21, 22,
      23, 27, 31, 35, 37, 39, 41, 43, 45, 47,
      51, 52, 53, 54, 55, 56, 57, 58, 59, 60,
      61, 62, 63, 64, 65, 66, 67, 68, 69, 70,
      71, 72, 73, 74, 75, 76, 77, 78, 79, 80,
      81>>

\* table_addr as _init_fcu_data sets it
_init_fcu_data ==
    <<0, 2, 6, 10, 14, 18, 19, 20, 21, 22,
      23, 27, 31, 35, 37, 39, 41, 43, 45, 47,
      51, 52, 53, 54, 55, 56, 57, 58, 59, 60,
      61, 62, 63, 64, 65, 66, 67, 68, 69, 70,
      71, 72, 73, 74, 75, 76, 77, 78, 79, 80,
      81>>

\* table_addr as _init_bms_data sets it
_init_bms_data ==
    <<0, 2, 6, 10, 14, 18, 19, 20, 21, 22,
      23, 27, 31, 35, 37, 39, 41, 43, 45, 47,
      51, 52, 53, 54, 55, 56, 57, 58, 60, 62,
      64, 66, 68, 70, 72, 74, 76, 77, 78, 79,
      80, 81, 82, 83, 84, 85, 87, 91, 95, 99,
      103>>

\* BoardData.__init__: the address table of a board of this type; a type
\* outside the twelve keeps the table of zeros
table_addr(board_type) ==
    CASE board_type = "PCU" -> _init_pcu_data
      [] board_type = "TCU" -> _init_tcu_data
      [] board_type = "WLU" -> _init_wlu_data
      [] board_type = "OBD_DC_DC" -> _init_obd_dcdc_data
      [] board_type = "CCU" -> _init_ccu_data
      [] board_type = "GATE" -> _init_gate_data
      [] board_type = "PDU" -> _init_pdu_data
      [] board_type = "ZCU" -> _init_zcu_data
      [] board_type = "VCU" -> _init_vcu_data
      [] board_type = "SCU" -> _init_scu_data
      [] board_type = "FCU" -> _init_fcu_data
      [] board_type = "BMS" -> _init_bms_data
      [] OTHER -> Zeros(TABLE_ADDR_MAX)


\* variable_names as _init_pcu_data sets it
_init_pcu_names ==
    <<"Flash CRC16", "Flash counter", "Supervisor key", "Admin key",
      "User key", "Manuf. rev.", "Model", "Type",
      "Software rev.", "Hardware rev.", "Date manuf.", "Date service",
      "Date current", "Log number", "Log index", "Event number",
      "Event index", "Failure number", "Failure index", "Com ID",
      "Com index", "Com type", "Setup", "Option",
      "Verbose", "Debug", "Param", "Top speed FW",
      "Top speed RV", "Min speed FW", "Min speed RV", "Dock speed FW",
      "Dock speed RV", "Max torque FW", "Max torque RV", "Mtn max torque",
      "Eco/Sport ratio", "Filter RPM step", "Filter rpm step", "Filter TRQ step",
      "Filter trq step", "Reverse dir.", "Forward dir.", "Motor low temp",
      "Motor cool LPM", "F/R speed max", "Ramp FW acc.", "Ramp RV acc.",
      "Ramp FW dec.", "Ramp RV dec.", "Batt low temp">>

\* variable_names as _init_tcu_data sets it
_init_tcu_names ==
    <<"Flash CRC16", "Flash counter", "Supervisor key", "Admin key",
      "User key", "Manuf. rev.", "Model", "Type",
      "Software rev.", "Hardware rev.", "Date manuf.", "Date service",
      "Date current", "Log number", "Log index", "Event number",
      "Event index", "Failure number", "Failure index", "Com ID",
      "Com index", "Com type", "Mode init", "Mode option",
      "Mode verbose", "Mode debug", "Mode param", "Ana1 value min",
      "Ana1 value max", "Ana2 value min", "Ana2 value max", "Ana3 value min",
      "Ana3 value max", "Brake trigger", "Openwire limit", "POT3 volt. gap",
      "POT3 R value", "POT3 N value", "POT3 D value", "POT3 P value",
      "LOG dot 1", "LOG dot 2", "LOG dot 3", "LOG dot 4",
      "LOG dot 5", "LOG dot 6", "Reserved", "Reserved",
      "Reserved", "Reserved">>

\* variable_names as _init_wlu_data sets it
_init_wlu_names ==
    <<"Flash CRC16", "Flash counter", "Supervisor key", "Admin key",
      "User key", "Manuf. rev.", "Model", "Type",
      "Software rev.", "Hardware rev.", "Date manuf.", "Date service",
      "Date current", "Log number", "Log index", "Event number",
      "Event index", "Failure number", "Failure index", "Com ID",
      "Com index", "Com type", "Mode init", "Mode option",
      "Mode verbose", "Mode debug", "Mode param", "Temp max",
      "Current coeff", "Voltage min", "Current max", "Warning CANID",
      "Warning filter", "Warning value", "Warning ON time", "Warning OFF time",
      "Reserved", "Reserved", "Reserved", "Reserved",
      "Reserved", "Reserved", "Reserved", "Reserved",
      "Reserved", "Reserved", "Reserved", "Reserved",
      "Reserved", "Reserved">>

\* variable_names as _init_obd_dcdc_data sets it
_init_obd_dcdc_names ==
    <<"Flash CRC16", "Flash counter", "Supervisor key", "Admin key",
      "User key", "Manuf. rev.", "Model", "Type",
      "Software rev.", "Hardware rev.", "Date manuf.", "Date service",
      "Date current", "Log number", "Log index", "Event number",
      "Event index", "Failure number", "Failure index", "Com ID",
      "Com index", "Com type", "Mode init", "Mode option",
      "Mode verbose", "Mode debug", "Mode param", "DCDC voltage",
      "DCDC current", "HVBATT CAN id", "Discharge filter", "Charge filter",
      "Reserved", "Reserved", "Reserved", "Reserved",
      "Reserved", "Reserved", "Reserved", "Reserved",
      "Reserved", "Reserved", "Reserved", "Reserved",
      "Reserved", "Reserved", "Reserved", "Reserved",
      "Reserved", "Reserved">>

\* variable_names as _init_ccu_data sets it
_init_ccu_names ==
    <<"Flash CRC16", "Flash counter", "Supervisor key", "Admin key",
      "User key", "Manuf. rev.", "Model", "Type",
      "Software rev.", "Hardware rev.", "Date manuf.", "Date service",
      "Date current", "Log number", "Log index", "Event number",
      "Event index", "Failure number", "Failure index", "Com ID",
      "Com index", "Com type", "Mode init", "Mode option",
      "Mode verbose", "Mode debug", "Mode param", "Flow setpoint",
      "ZCU curr", "Service pump %", "ZCU rated curr", "ZCU timeout",
      "Reserved", "Reserved", "Reserved", "Reserved",
      "Reserved", "Reserved", "Reserved", "Reserved",
      "Reserved", "Reserved", "Reserved", "Reserved",
      "Reserved", "Reserved", "Reserved", "Reserved",
      "Reserved", "Reserved">>

\* variable_names as _init_gate_data sets it
_init_gate_names ==
    <<"Flash CRC16", "Flash counter", "Supervisor key", "Admin key",
      "User key", "Manuf. rev.", "Model", "Type",
      "Software rev.", "Hardware rev.", "Date manuf.", "Date service",
      "Date current", "Log number", "Log index", "Event number",
      "Event index", "Failure number", "Failure index", "Com ID",
      "Com index", "Com type", "Mode init", "Mode option",
      "Mode verbose", "Mode debug", "Mode param", "CAN2 src (ADDR1)",
      "CAN1 dst (ADDR1)", "CAN1 src (ADDR1)", "CAN2 dst (ADDR1)", "CAN2 src (ADDR2)",
      "CAN1 dst (ADDR2)", "CAN1 src (ADDR2)", "CAN2 dst (ADDR2)", "CAN2 src (ADDR3)",
      "CAN1 dst (ADDR3)", "CAN1 src (ADDR3)", "CAN2 dst (ADDR3)", "CAN2 src (ADDR4)",
      "CAN1 dst (ADDR4)", "CAN1 src (ADDR4)", "CAN2 dst (ADDR4)", "Reserved",
      "Reserved", "Reserved", "Reserved", "Reserved",
      "Reserved", "Reserved">>

\* variable_names as _init_pdu_data sets it
_init_pdu_names ==
    <<"Flash CRC16", "Flash counter", "Supervisor key", "Admin key",
      "User key", "Manuf. rev.", "Model", "Type",
      "Software rev.", "Hardware rev.", "Date manuf.", "Date service",
      "Date current", "Log number", "Log index", "Event number",
      "Event index", "Failure number", "Failure index", "Com ID",
      "Com index", "Com type", "Mode init", "Mode option",
      "Mode verbose", "Mode debug", "Mode param", "Motor2 enable",
      "Generator enable", "Precharge2 enable", "Leakage enable", "Batt delay",
      "Precharge1 delay", "Precharge2 delay", "Generator delay", "Reserved",
      "Reserved", "Reserved", "Reserved", "Reserved",
      "Reserved", "Reserved", "Reserved", "Reserved",
      "Reserved", "Reserved", "Reserved", "Reserved",
      "Reserved", "Reserved">>

\* variable_names as _init_zcu_data sets it
_init_zcu_names ==
    <<"Flash CRC16", "Flash counter", "Supervisor key", "Admin key",
      "User key", "Manuf. rev.", "Model", "Type",
      "Software rev.", "Hardware rev.", "Date manuf.", "Date service",
      "Date current", "Log number", "Log index", "Event number",
      "Event index", "Failure number", "Failure index", "Com ID",
      "Com index", "Com type", "Setup", "Option",
      "Verbose", "Debug", "Param", "Nom peak current",
      "Max peak current", "Peak timeout", "Max cont current", "Cont timeout",
      "Max MOS temp", "Min MOS temp", "Pump type", "Throttle max",
      "Tick to Min%", "Tick to Max%", "Min PWM to flow", "Derating PWM %",
      "Derating temp diff", "Derating delay", "Min flow derating", "CAN timeout",
      "Reserved", "Reserved", "Reserved", "Reserved",
      "Reserved", "Reserved">>

\* variable_names as _init_vcu_data sets it
_init_vcu_names ==
    <<"Flash CRC16", "Flash counter", "Supervisor key", "Admin key",
      "User key", "Manuf. rev.", "Model", "Type",
      "Software rev.", "Hardware rev.", "Date manuf.", "Date service",
      "Date current", "Log number", "Log index", "Event number",
      "Event index", "Failure number", "Failure index", "Com ID",
      "Com index", "Com type", "Setup", "Option",
      "Verbose", "Debug", "Param", "BAT low temp",
      "CHG high temp", "Free", "PDU config", "End of charge",
      "HV Bat max", "HV pack energy", "SHD threshold", "IGNoff timeout",
      "DCDC Setpoint", "Reserved", "Reserved", "Reserved",
      "Reserved", "Reserved", "Reserved", "Reserved",
      "Reserved", "Reserved", "Reserved", "Reserved",
      "Reserved", "Reserved", "Reserved">>

\* variable_names as _init_scu_data sets it
_init_scu_names ==
    <<"Flash CRC16", "Flash counter", "Supervisor key", "Admin key",
      "User key", "Manuf. rev.", "Model", "Type",
      "Software rev.", "Hardware rev.", "Date manuf.", "Date service",
      "Date current", "Log number", "Log index", "Event number",
      "Event index", "Failure number", "Failure index", "Com ID",
      "Com index", "Com type", "Mode init", "Mode option",
      "Mode verbose", "Mode debug", "Mode param", "Temp max",
      "Temp min", "Frame rate", "Reserved", "Reserved",
      "Reserved", "Reserved", "Reserved", "Reserved",
      "Reserved", "Reserved", "Reserved", "Reserved",
      "Reserved", "Reserved", "Reserved", "Reserved",
      "Reserved", "Reserved", "Reserved", "Reserved",
      "Reserved", "Reserved">>

\* variable_names as _init_fcu_data sets it
_init_fcu_names ==
    <<"Flash CRC16", "Flash counter", "Supervisor key", "Admin key",
      "User key", "Manuf. rev.", "Model", "Type",
      "Software rev.", "Hardware rev.", "Date manuf.", "Date service",
      "Date current", "Log number", "Log index", "Event number",
      "Event index", "Failure number", "Failure index", "Com ID",
      "Com index", "Com type", "Mode init", "Mode option",
      "Mode verbose", "Mode debug", "Mode param", "Flow max",
      "Flow min", "Frame rate", "Reserved", "Reserved",
      "Reserved", "Reserved", "Reserved", "Reserved",
      "Reserved", "Reserved", "Reserved", "Reserved",
      "Reserved", "Reserved", "Reserved", "Reserved",
      "Reserved", "Reserved", "Reserved", "Reserved",
      "Reserved", "Reserved">>

\* variable_names as _init_bms_data sets it
_init_bms_names ==
    <<"Flash CRC16", "Flash counter", "Supervisor key", "Admin key",
      "User key", "Manuf. rev.", "Model", "Type",
      "Software rev.", "Hardware rev.", "Date manuf.", "Date service",
      "Date current", "Log number", "Log index", "Event number",
      "Event index", "Failure number", "Failure index", "Com ID",
      "Com index", "Com type", "Mode init", "Mode option",
      "Mode verbose", "Mode debug", "Mode param", "Abs. max speed F",
      "Abs. max speed R", "Lim. max speed F", "Lim. max speed R", "Mtn. max speed F",
      "Mtn. max pseed R", "Max torque FW", "Max torque RV", "Mtn max torque",
      "Eco/Sport ratio", "Filter RPM step", "Filter rpm step", "Filter TRQ step",
      "Filter trq step", "Reverse dir.", "Forward dir.", "Speed mode val.",
      "Torq mode val.", "F/R speed max", "HVBATT addr", "DISCHG filter",
      "CHG filter", "VCU addr">>

\* BoardData.__init__: the names of a board of this type; a type outside the
\* twelve keeps the empty list
variable_names(board_type) ==
    CASE board_type = "PCU" -> _init_pcu_names
      [] board_type = "TCU" -> _init_tcu_names
      [] board_type = "WLU" -> _init_wlu_names
      [] board_type = "OBD_DC_DC" -> _init_obd_dcdc_names
      [] board_type = "CCU" -> _init_ccu_names
      [] board_type = "GATE" -> _init_gate_names
      [] board_type = "PDU" -> _init_pdu_names
      [] board_type = "ZCU" -> _init_zcu_names
      [] board_type = "VCU" -> _init_vcu_names
      [] board_type = "SCU" -> _init_scu_names
      [] board_type = "FCU" -> _init_fcu_names
      [] board_type = "BMS" -> _init_bms_names
      [] OTHER -> <<>>

\* f"Unknown_Var_{index}"
UnknownVar(index) == "Unknown_Var_" \o ToString(index)

\* a mutant of get_variable_address: the table is indexed as Python indexes
\* a list, from its end when index is negative
get_variable_address_Wraps(board_type, index) ==
    IF 0 - Len(table_addr(board_type)) <= index /\ index < Len(table_addr(board_type))
    THEN table_addr(board_type)[(index % Len(table_addr(board_type))) + 1]
    ELSE 0

\* get_variable_address
get_variable_address(board_type, index) ==
    IF 0 <= index /\ index < Len(table_addr(board_type))
    THEN table_addr(board_type)[index + 1]
    ELSE 0

\* get_variable_name
get_variable_name(board_type, index) ==
    IF 0 <= index /\ index < Len(variable_names(board_type))
    THEN variable_names(board_type)[index + 1]
    ELSE UnknownVar(index)

\* a mutant of get_default_can_id_base: the attribute can_id_base, which
\* __init__ sets to 0x300 for every board type, is returned
get_default_can_id_base_Attribute(board_type) == 768

\* get_default_can_id_base: BOARD_CAN_ID_BASES.get(board_type, 0x300)
get_default_can_id_base(board_type) ==
    IF board_type \in DOMAIN BOARD_CAN_ID_BASES
    THEN BOARD_CAN_ID_BASES[board_type]
    ELSE 768

----------------------------------------------------------------------------
(* Python integers of more than 31 bits.  Wide(hi, lo) is the integer      *)
(* hi * 65536 + lo with 0 <= lo < 65536; hi is negative for a negative      *)
(* integer, as in two's complement.                                         *)

Wide(hi, lo) == [hi |-> hi, lo |-> lo]

\* the model's integer n as a Wide
ToWide(n) == Wide(n \div 65536, n % 65536)

\* a > b
WideGreater(a, b) == a.hi > b.hi \/ (a.hi = b.hi /\ a.lo > b.lo)

\* a - b
WideMinus(a, b) ==
    IF a.lo >= b.lo THEN Wide(a.hi - b.hi, a.lo - b.lo)
    ELSE Wide(a.hi - b.hi - 1, a.lo - b.lo + 65536)

TwoTo32 == Wide(65536, 0)

----------------------------------------------------------------------------
(* RetainVarMonitor *)

\* seq[i] as Python indexes a list: from the end when i is negative,
\* IndexError (None here) outside -len..len-1
PyIndex(seq, i) ==
    IF 0 <= i /\ i < Len(seq) THEN Some(seq[i + 1])
    ELSE IF i < 0 /\ i >= 0 - Len(seq) THEN Some(seq[Len(seq) + i + 1])
    ELSE None

\* a mutant of transfer_length: the length is not capped at 4
transfer_length_NoCap(board_type, var_index) ==
    LET table == table_addr(board_type)
        address == get_variable_address(board_type, var_index)
    IN IF var_index + 1 < Len(table)
       THEN LET next == PyIndex(table, var_index + 1) IN
            IF next = None THEN None
            ELSE Some(Val(next) - address)
       ELSE Some(4)

\* a mutant of transfer_length: every transfer is of 4 bytes
transfer_length_Four(board_type, var_index) == Some(4)

\* "Calculate length" of read_variable and write_variable: None when
\* table_addr[var_index + 1] raises IndexError
transfer_length(board_type, var_index) ==
    LET table == table_addr(board_type)
        address == get_variable_address(board_type, var_index)
    IN IF var_index + 1 < Len(table)
       THEN LET next == PyIndex(table, var_index + 1) IN
            IF next = None THEN None
            ELSE Some(IF Val(next) - address < 4 THEN Val(next) - address ELSE 4)
       ELSE Some(4)

\* the base read_variable and write_variable use: the argument, or the
\* selected board's default when the argument is None
base_used(board_type, can_id_base) ==
    IF can_id_base = None THEN get_default_can_id_base(board_type)
    ELSE Val(can_id_base)

\* read_can_id and write_can_id
request_can_id(base, board_index) == base + 5 + board_index * 16

\* a mutant of expected_response_id: the offset 0x0A is left out
expected_response_id_NoOffset(base, board_index) == base + board_index * 16

\* expected_response_id of read_variable
expected_response_id(base, board_index) == base + 10 + board_index * 16

\* a mutant of address_bytes: the address big-endian
address_bytes_BigEndian(address) ==
    <<(address \div 65536) % 256, (address \div 256) % 256, address % 256>>

\* bytes 1..3 of a request: the address, little-endian
address_bytes(address) ==
    <<address % 256, (address \div 256) % 256, (address \div 65536) % 256>>

\* a mutant of value_bytes: only the low 16 bits of the value are sent
value_bytes_Low16(value) ==
    <<value.lo % 256, (value.lo \div 256) % 256, 0, 0>>

\* bytes 4..7 of a write request: value & 0xFF, (value >> 8) & 0xFF, ...
value_bytes(value) ==
    <<value.lo % 256, (value.lo \div 256) % 256,
      value.hi % 256, (value.hi \div 256) % 256>>

\* the request frame of read_variable
read_request(board_type, var_index, base, board_index) ==
    LET address == get_variable_address(board_type, var_index)
        length == Val(transfer_length(board_type, var_index))
    IN CANMessage(request_can_id(base, board_index),
                  <<16 + length>> \o address_bytes(address) \o Zeros(4))

\* the request frame of write_variable
write_request(board_type, var_index, value, base, board_index) ==
    LET address == get_variable_address(board_type, var_index)
        length == Val(transfer_length(board_type, var_index))
    IN CANMessage(request_can_id(base, board_index),
                  <<32 + length>> \o address_bytes(address) \o value_bytes(value))

\* a mutant of decode_value: the sign tests include their bounds
decode_value_Inclusive(data) ==
    LET value == Wide(data[7] + data[8] * 256, data[5] + data[6] * 256)
        data_type == data[1] % 8
    IN CASE data_type = 1 ->
              IF ~WideGreater(ToWide(127), value)
              THEN WideMinus(value, ToWide(256)) ELSE value
         [] data_type = 2 ->
              IF ~WideGreater(ToWide(32767), value)
              THEN WideMinus(value, ToWide(65536)) ELSE value
         [] data_type = 4 ->
              IF ~WideGreater(ToWide(2147483647), value)
              THEN WideMinus(value, TwoTo32) ELSE value
         [] OTHER -> value

\* the decoding of a response's payload in read_variable (8 bytes at least)
decode_value(data) ==
    LET value == Wide(data[7] + data[8] * 256, data[5] + data[6] * 256)
        data_type == data[1] % 8
    IN CASE data_type = 1 ->
              IF WideGreater(value, ToWide(127))
              THEN WideMinus(value, ToWide(256)) ELSE value
         [] data_type = 2 ->
              IF WideGreater(value, ToWide(32767))
              THEN WideMinus(value, ToWide(65536)) ELSE value
         [] data_type = 4 ->
              IF WideGreater(value, ToWide(2147483647))
              THEN WideMinus(value, TwoTo32) ELSE value
         [] OTHER -> value

\* what read_variable returns
ReadResult(ok, value) == Some([ok |-> ok, value |-> value])

\* a mutant of read_response: the identifier of the response is not compared
read_response_AnyId(r, base, board_index) ==
    IF r.result = ERR_OK /\ r.message # None
    THEN IF Len(Val(r.message).data) < 8
         THEN ReadResult(FALSE, ToWide(0))
         ELSE ReadResult(TRUE, decode_value(Val(r.message).data))
    ELSE ReadResult(FALSE, ToWide(0))

\* a mutant of read_response: a frame of another identifier is reported with
\* that identifier in place of the value 0
read_response_WrongIdReported(r, base, board_index) ==
    IF r.result = ERR_OK /\ r.message # None
    THEN IF Val(r.message).id = expected_response_id(base, board_index)
         THEN IF Len(Val(r.message).data) < 8
              THEN ReadResult(FALSE, ToWide(0))
              ELSE ReadResult(TRUE, decode_value(Val(r.message).data))
         ELSE ReadResult(FALSE, ToWide(Val(r.message).id))
    ELSE ReadResult(FALSE, ToWide(0))

\* a mutant of read_response: without the try block, the IndexError of
\* response.data[7] on a short payload reaches the caller
read_response_Unguarded(r, base, board_index) ==
    IF r.result = ERR_OK /\ r.message # None
    THEN IF Val(r.message).id = expected_response_id(base, board_index)
         THEN IF Len(Val(r.message).data) < 8
              THEN Raised("IndexError")
              ELSE ReadResult(TRUE, decode_value(Val(r.message).data))
         ELSE ReadResult(FALSE, ToWide(0))
    ELSE ReadResult(FALSE, ToWide(0))

\* read_variable after its receive_message returned r
read_response(r, base, board_index) ==
    IF r.result = ERR_OK /\ r.message # None
    THEN IF Val(r.message).id = expected_response_id(base, board_index)
         THEN IF Len(Val(r.message).data) < 8
              THEN ReadResult(FALSE, ToWide(0))
              ELSE ReadResult(TRUE, decode_value(Val(r.message).data))
         ELSE ReadResult(FALSE, ToWide(0))
    ELSE ReadResult(FALSE, ToWide(0))

\* a mutant of write_result: the result of the send is not looked at
write_result_Ignored(result) == TRUE

\* what write_variable returns after its send_message returned result
write_result(result) == result = ERR_OK

\* select_board
select_board(BoardTypes) ==
    /\ pc = "idle" /\ rv_pc = "idle"
    /\ \E board_type \in BoardTypes : current_board' = Some(board_type)
    /\ returned' = Some(TRUE)
    /\ NewCall("select_board")
    /\ UNCHANGED <<transport, rxq, boot, pdpos, rv_pc, rv_args>>

\* current_board.get_variable_address called on its own
API_get_variable_address(Indexes) ==
    /\ pc = "idle" /\ rv_pc = "idle"
    /\ current_board # None
    /\ \E index \in Indexes :
         /\ rv_args' = [var_index |-> index, can_id_base |-> None,
                        board_index |-> 0, value |-> None]
         /\ returned' = Some(get_variable_address(Val(current_board), index))
    /\ NewCall("get_variable_address")
    /\ UNCHANGED <<transport, rxq, boot, pdpos, current_board, rv_pc>>

\* current_board.get_variable_name called on its own
API_get_variable_name(Indexes) ==
    /\ pc = "idle" /\ rv_pc = "idle"
    /\ current_board # None
    /\ \E index \in Indexes :
         /\ rv_args' = [var_index |-> index, can_id_base |-> None,
                        board_index |-> 0, value |-> None]
         /\ returned' = Some(get_variable_name(Val(current_board), index))
    /\ NewCall("get_variable_name")
    /\ UNCHANGED <<transport, rxq, boot, pdpos, current_board, rv_pc>>

\* read_variable up to its send_message
RV_ReadSend(VarIndexes, Bases, BoardIndexes) ==
    /\ pc = "idle" /\ rv_pc = "idle"
    /\ \E var_index \in VarIndexes, can_id_base \in Bases,
          board_index \in BoardIndexes, accept \in BOOLEAN :
         /\ rv_args' = [var_index |-> var_index, can_id_base |-> can_id_base,
                        board_index |-> board_index, value |-> None]
         /\ IF current_board = None
            THEN /\ returned' = ReadResult(FALSE, ToWide(0))
                 /\ sent' = <<>> /\ results' = <<>> /\ msg_failed' = FALSE
                 /\ rv_pc' = "idle"
            ELSE IF transfer_length(Val(current_board), var_index) = None
            THEN /\ returned' = ReadResult(FALSE, ToWide(0))
                 /\ sent' = <<>> /\ results' = <<>> /\ msg_failed' = FALSE
                 /\ rv_pc' = "idle"
            ELSE LET base == base_used(Val(current_board), can_id_base)
                     message == read_request(Val(current_board), var_index,
                                             base, board_index)
                     result == send_message(message, accept)
                 IN /\ sent' = IF result = ERR_OK THEN <<message>> ELSE <<>>
                    /\ results' = <<result>>
                    /\ msg_failed' = (result # ERR_OK)
                    /\ IF result # ERR_OK
                       THEN returned' = ReadResult(FALSE, ToWide(0)) /\ rv_pc' = "idle"
                       ELSE returned' = None /\ rv_pc' = "wait"
    /\ BeginCall("read_variable")
    /\ UNCHANGED <<transport, rxq, boot, pdpos, current_board>>

\* read_variable from its receive_message on
RV_ReadRecv ==
    /\ rv_pc = "wait"
    /\ \E raises \in BOOLEAN :
         LET r == receive_message(raises)
             base == base_used(Val(current_board), rv_args.can_id_base)
         IN /\ recvs' = Append(recvs, r)
            /\ rxq' = IF r.message # None THEN Tail(rxq) ELSE rxq
            /\ returned' = read_response(r, base, rv_args.board_index)
    /\ rv_pc' = "idle"
    /\ UNCHANGED <<transport, boot, pdpos, current_board, rv_args,
                   call, sent, results, msg_failed, inner, stale>>

\* write_variable
RV_Write(VarIndexes, Values, Bases, BoardIndexes) ==
    /\ pc = "idle" /\ rv_pc = "idle"
    /\ \E var_index \in VarIndexes, value \in Values, can_id_base \in Bases,
          board_index \in BoardIndexes, accept \in BOOLEAN :
         /\ rv_args' = [var_index |-> var_index, can_id_base |-> can_id_base,
                        board_index |-> board_index, value |-> Some(value)]
         /\ IF current_board = None
            THEN /\ returned' = Some(FALSE)
                 /\ sent' = <<>> /\ results' = <<>> /\ msg_failed' = FALSE
            ELSE IF transfer_length(Val(current_board), var_index) = None
            THEN /\ returned' = Some(FALSE)
                 /\ sent' = <<>> /\ results' = <<>> /\ msg_failed' = FALSE
            ELSE LET base == base_used(Val(current_board), can_id_base)
                     message == write_request(Val(current_board), var_index,
                                              value, base, board_index)
                     result == send_message(message, accept)
                 IN /\ sent' = IF result = ERR_OK THEN <<message>> ELSE <<>>
                    /\ results' = <<result>>
                    /\ msg_failed' = (result # ERR_OK)
                    /\ returned' = Some(write_result(result))
    /\ BeginCall("write_variable")
    /\ UNCHANGED <<transport, rxq, boot, pdpos, current_board, rv_pc>>

\* One pass of the loop of the GUI's monitor thread: receive_message(0.1),
\* whose frame goes to the message list of the window.  The thread runs
\* beside the calls of the main thread, whatever they are doing.
monitor_can_messages ==
    /\ \E raises \in BOOLEAN :
         LET r == receive_message(raises) IN
         rxq' = IF r.message # None THEN Tail(rxq) ELSE rxq
    /\ UNCHANGED <<transport, boot, pdpos, retain, history>>

\* a frame arrives from the bus in the endpoint's inbound queue
Deliver(Frames, capacity) ==
    /\ is_connected /\ bus # None
    /\ Len(rxq) < capacity
    /\ \E frame \in Frames : rxq' = Append(rxq, frame)
    /\ UNCHANGED <<transport, boot, pdpos, retain, history>>

----------------------------------------------------------------------------
(* Specifications *)

Init ==
    /\ bus = None /\ is_connected = FALSE /\ message_filter = None
    /\ rxq = <<>>
    /\ upload_step = 0 /\ pic_address = 0
    /\ data_bytes = None /\ data_ptr = None
    /\ pc = "idle" /\ pd_dev = 0 /\ pd_i = 0
    /\ current_board = None /\ rv_pc = "idle" /\ rv_args = None
    /\ call = "none" /\ sent = <<>> /\ results = <<>> /\ msg_failed = FALSE
    /\ recvs = <<>> /\ inner = <<>> /\ stale = 0 /\ returned = None

\* the bootloader on a transport that is connected and disconnected between calls
NextBoot ==
    \/ connect
    \/ disconnect
    \/ PD_Load(Images)
    \/ PD_Reset
    \/ PD_StartLoad
    \/ PD_Loop
    \/ PD_Address
    \/ PD_Data
    \/ PD_Verify

SpecBoot == Init /\ [][NextBoot]_vars

\* the same, with a program_device that has started going on to its next
\* statement: the call runs in one thread and each of its sends returns
\* (send_message does not block and time.sleep is bounded)
UploadStep ==
    PD_Reset \/ PD_StartLoad \/ PD_Loop \/ PD_Address \/ PD_Data \/ PD_Verify

SpecBootFair == Init /\ [][NextBoot]_vars /\ WF_pdpos(UploadStep)

\* the bootloader's methods called in any order on a few images: an
\* unreadable file, an empty one, one with a malformed line, and images of
\* one and of two full records
ApiImages ==
    LET full == [kind |-> "data", words |-> RecordWords(0, MaxWords)] IN
    {[readable |-> FALSE, lines |-> <<>>]}
    \cup {[readable |-> TRUE, lines |-> l] :
            l \in {<<>>, <<[kind |-> "nothex", words |-> <<>>]>>,
                   <<full>>, <<full, full>>}}

NextBootApi ==
    \/ connect
    \/ disconnect
    \/ PD_Load(ApiImages)
    \/ PD_Reset
    \/ PD_StartLoad
    \/ PD_Loop
    \/ PD_Address
    \/ PD_Data
    \/ PD_Verify
    \/ API_load_hex_file(ApiImages)
    \/ API_send_command
    \/ API_send_address
    \/ API_send_data

SpecBootApi == Init /\ [][NextBootApi]_vars

\* load_hex_file of every file, on a new BootloaderProtocol and on one that
\* has loaded one of the few images before
NextLoader ==
    /\ IF call = "none" THEN TRUE ELSE rv_args.filename \in ApiImages
    /\ API_load_hex_file(Files)

SpecLoader == Init /\ [][NextLoader]_vars

\* the transport's own methods, called in any order while frames arrive
TransportMessages ==
    {CANMessage(773, <<18, 0, 0, 0, 0, 0, 0, 0>>), CANMessage(768, Zeros(8))}
TransportFrames ==
    {CANMessage(778, <<2, 0, 0, 0, 52, 18, 0, 0>>), CANMessage(773, <<2, 0, 0, 0>>)}

NextTransport ==
    \/ connect
    \/ disconnect
    \/ API_send_message(TransportMessages)
    \/ API_receive_message
    \/ API_set_message_filter({0, 768}, {2047}, {"MSGTYPE_STANDARD"})
    \/ API_get_status
    \/ Deliver(TransportFrames, MaxQueue)

SpecTransport == Init /\ [][NextTransport]_vars

----------------------------------------------------------------------------
(* Sessions of RetainVar reads and writes *)

KnownBoards == DOMAIN BOARD_CAN_ID_BASES

\* a PCU at its default base, read and written again and again while frames
\* of its own and of other senders arrive
SessionIndexes == {0, 5}
SessionValues == {ToWide(4660), ToWide(-5)}
SessionFrames ==
    {CANMessage(id, data) :
        id \in {778, 773},
        data \in {<<2, 0, 0, 0, 52, 18, 0, 0>>, <<1, 0, 0, 0, 128, 0, 0, 0>>}}
    \cup {CANMessage(778, <<2, 0, 0, 0>>)}

NextRetain ==
    \/ connect
    \/ disconnect
    \/ select_board({"PCU"})
    \/ RV_ReadSend(SessionIndexes, {None}, {0})
    \/ RV_ReadRecv
    \/ RV_Write(SessionIndexes, SessionValues, {None}, {0})
    \/ Deliver(SessionFrames, MaxQueue)

SpecRetain == Init /\ [][NextRetain]_vars

\* the same reads made from the GUI, whose monitor thread is receiving on
\* the same transport all the while
NextMonitor ==
    \/ connect
    \/ select_board({"PCU"})
    \/ RV_ReadSend(SessionIndexes, {None}, {0})
    \/ RV_ReadRecv
    \/ monitor_can_messages
    \/ Deliver(SessionFrames, MaxQueue)

SpecMonitor == Init /\ [][NextMonitor]_vars

\* one read or one write per session, over every board type (and one that
\* is none of the twelve), indexes in and around the table, an explicit or
\* defaulted base, and responses of every tag around the decoding boundaries
AllBoards == KnownBoards \cup {"XYZ"}
AllIndexes == {-53, -1, 0, 5, 50, 51}
AllBases == {None, Some(0), Some(768)}
AllBoardIndexes == 0..MaxBoardIndex
AllValues ==
    {ToWide(0), ToWide(100), ToWide(127), ToWide(4660), ToWide(32767),
     ToWide(2147483647), ToWide(-5), ToWide(-128), Wide(65535, 65535),
     Wide(46080, 24064), Wide(65536, 1)}

\* byte 0 of the responses tried: tags 0..4, and tag 2 under other high bits
ResponseByte0 == {0, 1, 2, 3, 4, 18}

\* bytes 4..7 of the responses tried
ResponsePayloads ==
    {<<0, 0, 0, 0>>, <<100, 0, 0, 0>>, <<127, 0, 0, 0>>, <<128, 0, 0, 0>>,
     <<52, 18, 0, 0>>, <<255, 127, 0, 0>>, <<0, 128, 0, 0>>,
     <<255, 255, 255, 127>>, <<0, 0, 0, 128>>, <<251, 255, 255, 255>>,
     <<255, 255, 255, 255>>, <<0, 94, 0, 180>>}

\* the identifiers the boards of the addressed class answer on, and the
\* request's own identifier
ResponseIds ==
    LET base == base_used(Val(current_board), rv_args.can_id_base) IN
    {base + 10 + 16 * i : i \in 0..MaxBoardIndex}
    \cup {base + 5 + 16 * rv_args.board_index}

\* payloads of fewer than 8 bytes
ShortPayloads == {<<>>, <<2, 0, 0, 0>>, <<2, 0, 0, 0, 52, 18, 0>>}

CodecFrames ==
    {CANMessage(id, <<b0, 0, 0, 0>> \o p) :
        id \in ResponseIds, b0 \in ResponseByte0, p \in ResponsePayloads}
    \cup {CANMessage(id, d) : id \in ResponseIds, d \in ShortPayloads}

FirstCall == call \in {"none", "connect", "select_board"}

NextCodec ==
    \/ (FirstCall /\ connect)
    \/ (FirstCall /\ select_board(AllBoards))
    \/ (FirstCall /\ RV_ReadSend(AllIndexes, AllBases, AllBoardIndexes))
    \/ (rv_pc = "wait" /\ Deliver(CodecFrames, 1))
    \/ RV_ReadRecv
    \/ (FirstCall /\ RV_Write(AllIndexes, AllValues, AllBases, AllBoardIndexes))

SpecCodec == Init /\ [][NextCodec]_vars

\* one lookup, read or write per session, over every board type and every
\* index of its table and the indexes around it
CatalogIndexes == (0 - TABLE_ADDR_MAX - 2)..(TABLE_ADDR_MAX + 1)

NextCatalog ==
    \/ (FirstCall /\ connect)
    \/ (FirstCall /\ select_board(AllBoards))
    \/ (FirstCall /\ API_get_variable_address(CatalogIndexes))
    \/ (FirstCall /\ API_get_variable_name(CatalogIndexes))
    \/ (FirstCall /\ RV_ReadSend(CatalogIndexes, {None}, {0}))
    \/ RV_ReadRecv
    \/ (FirstCall /\ RV_Write(CatalogIndexes, {ToWide(4660)}, {None}, {0}))

SpecCatalog == Init /\ [][NextCatalog]_vars

----------------------------------------------------------------------------
(* Properties of program_device *)

Ids(frames) == [k \in 1..Len(frames) |-> frames[k].id]

\* n copies of the sequence s
RECURSIVE Repeat(_, _)
Repeat(s, n) == IF n <= 0 THEN <<>> ELSE s \o Repeat(s, n - 1)

\* the identifiers of a complete upload of an image of n words to device dev
FullUpload(dev, n) ==
    <<dev + 0, dev + 2>>
    \o Repeat(<<dev + 3>> \o Repeat(<<dev + 4>>, 8), (n + 31) \div 32)
    \o <<dev + 5>>

\* program_device has returned or raised
PD_Over == call = "program_device" /\ pc = "idle" /\ returned # None

\* program_device got past load_hex_file
PD_Loaded == call = "program_device" /\ (pc # "idle" \/ Len(results) > 0)

\* C1: when load_hex_file succeeds with a non-empty word buffer and every
\* send_message returns ERR_OK, program_device transmits reset, start-load,
\* one address frame and eight data frames per chunk until the cursor reaches
\* the end of the buffer, then verify, and returns True.
C1_UploadCompletes ==
    (PD_Over /\ PD_Loaded /\ Val(data_bytes) # <<>> /\ ~msg_failed)
        => /\ returned = Some(TRUE)
           /\ Ids(sent) = FullUpload(pd_dev, Len(Val(data_bytes)))

\* C2: in program_device the first send whose result is not ERR_OK is the
\* last send of the call, and the call returns False with it: nothing is
\* retried or resumed.
C2_AbortOnFirstFailure ==
    call = "program_device" =>
        \A k \in 1..Len(results) :
            results[k] # ERR_OK =>
                /\ k = Len(results)
                /\ pc = "idle"
                /\ returned = Some(FALSE)

\* an upload that aborted on a failed address frame, after two frames sent
C2_Witness ==
    /\ PD_Over
    /\ results = <<ERR_OK, ERR_OK, ERR_XMTFULL>>
    /\ Len(sent) = 2
    /\ returned = Some(FALSE)

\* The order of the identifiers of one upload, as an automaton: 0 nothing
\* sent, 1 reset sent, 2 start-load sent, 10 + k an address frame and k data
\* frames sent, 99 verify sent, -1 out of order.
OrderStep(st, id, dev) ==
    CASE st = 0 /\ id = dev + 0 -> 1
      [] st = 1 /\ id = dev + 2 -> 2
      [] st = 2 /\ id = dev + 3 -> 10
      [] st = 2 /\ id = dev + 5 -> 99
      [] st >= 10 /\ st < 18 /\ id = dev + 4 -> st + 1
      [] st >= 10 /\ st <= 18 /\ id = dev + 3 -> 10
      [] st >= 10 /\ st <= 18 /\ id = dev + 5 -> 99
      [] OTHER -> -1

RECURSIVE Order(_, _, _, _)
Order(ids, k, st, dev) ==
    IF k > Len(ids) THEN st ELSE Order(ids, k + 1, OrderStep(st, ids[k], dev), dev)

\* C3: whatever sends fail, the identifiers program_device transmits are
\* reset, start-load, groups of one address and at most eight data frames,
\* and at most one verify, in this order; verify is transmitted only with
\* the cursor at or past the end of the word buffer.
C3_FrameOrder ==
    call = "program_device" =>
        /\ Order(Ids(sent), 1, 0, pd_dev) # -1
        /\ (Order(Ids(sent), 1, 0, pd_dev) = 99
                => Val(data_ptr) >= Len(Val(data_bytes)))

\* an upload that went as far as an address frame, and one that sent verify
C3_Witness ==
    /\ call = "program_device"
    /\ Ids(sent) = <<pd_dev + 0, pd_dev + 2, pd_dev + 3>>
    /\ Val(data_ptr) < Len(Val(data_bytes))

----------------------------------------------------------------------------
(* Properties of read_variable and write_variable *)

\* read_variable has returned after a send that succeeded
ReadAnswered == call = "read_variable" /\ rv_pc = "idle" /\ results = <<ERR_OK>>

\* the base of the call: the argument or, without one, the default the
\* interface lists for the selected board class
ListedBase ==
    IF rv_args.can_id_base # None THEN Val(rv_args.can_id_base)
    ELSE [PCU |-> 768, TCU |-> 1024, WLU |-> 1280, OBD_DC_DC |-> 1536,
          CCU |-> 896, GATE |-> 1152, PDU |-> 1408, ZCU |-> 1664,
          VCU |-> 1792, SCU |-> 1920, FCU |-> 2048, BMS |-> 2176][Val(current_board)]

ReadFailed == returned = Some([ok |-> FALSE, value |-> ToWide(0)])

\* C4: after a successful send read_variable calls receive_message exactly
\* once; it returns success only if the frame received has the expected
\* response identifier, and (False, 0) if that frame has another identifier,
\* if no frame arrived, or if the transport reported an error.
C4_OneReceive ==
    ReadAnswered =>
        /\ Len(recvs) = 1
        /\ Val(returned).ok =>
              /\ recvs[1].message # None
              /\ Val(recvs[1].message).id = ListedBase + 10 + 16 * rv_args.board_index
        /\ (recvs[1].message # None
              /\ Val(recvs[1].message).id # ListedBase + 10 + 16 * rv_args.board_index)
              => ReadFailed
        /\ (recvs[1].message = None \/ recvs[1].result # ERR_OK) => ReadFailed

\* a read that failed on a frame of another identifier while the response
\* it was waiting for was next in the queue, and is left there
C4_Witness ==
    /\ ReadAnswered
    /\ recvs[1].message # None
    /\ Val(recvs[1].message).id = 773
    /\ ReadFailed
    /\ rxq # <<>> /\ Head(rxq).id = 778

\* C5: read_variable and write_variable transmit their request on
\* can_id_base + 0x05 + (board_index << 4), and read_variable accepts a
\* response only on can_id_base + 0x0A + (board_index << 4); an omitted
\* can_id_base is the default of the selected board class.
C5_Identifiers ==
    (call \in {"read_variable", "write_variable"}
        /\ current_board # None /\ Val(current_board) \in KnownBoards)
    => /\ sent # <<>> => sent[1].id = ListedBase + 5 + 16 * rv_args.board_index
       /\ (call = "read_variable" /\ returned # None /\ Val(returned).ok) =>
             Val(recvs[1].message).id = ListedBase + 10 + 16 * rv_args.board_index

\* a read of a BMS at its default base, as board 2, that succeeded
C5_Witness ==
    /\ ReadAnswered /\ Val(returned).ok
    /\ current_board = Some("BMS") /\ rv_args.can_id_base = None
    /\ rv_args.board_index = 2
    /\ sent[1].id = 2213 /\ Val(recvs[1].message).id = 2218

\* reading variable 0 of a PCU with can_id_base 0x300 and board_index 0
PcuReadZero ==
    /\ call = "read_variable" /\ results = <<ERR_OK>>
    /\ current_board = Some("PCU")
    /\ rv_args.can_id_base = Some(768)
    /\ rv_args.board_index = 0 /\ rv_args.var_index = 0

\* C6 as written: the request is on 0x305 with payload [0x14, 0, 0, 0, 0, 0, 0, 0]
C6_RequestAsWritten ==
    PcuReadZero => sent = <<CANMessage(773, <<20, 0, 0, 0, 0, 0, 0, 0>>)>>

\* C6, amended: with the PCU board selected, can_id_base 0x300 and
\* board_index 0, read_variable(0) transmits a request on 0x305 whose payload
\* is [0x12, 0, 0, 0, 0, 0, 0, 0]: 0x10 + length 2, address 0.
C6_Request ==
    PcuReadZero => sent = <<CANMessage(773, <<18, 0, 0, 0, 0, 0, 0, 0>>)>>

C6_Witness == PcuReadZero /\ sent # <<>>

\* the address and the length of the variable a call is about
CallAddress == get_variable_address(Val(current_board), rv_args.var_index)
CallLength == Val(transfer_length(Val(current_board), rv_args.var_index))

\* the low 32 bits of a value
Low32(value) == Wide(value.hi % 65536, value.lo)

\* C7: a read request has 8 payload bytes: byte 0 is 0x10 + length, bytes
\* 1..3 are the address little-endian, bytes 4..7 are 0.  A write request
\* has byte 0 = 0x20 + length, the same address bytes, and in bytes 4..7 the
\* low 32 bits of the value, little-endian.
C7_RequestLayout ==
    (call \in {"read_variable", "write_variable"} /\ sent # <<>>) =>
        LET data == sent[1].data IN
        /\ Len(data) = 8
        /\ \A k \in 1..8 : data[k] \in 0..255
        /\ data[2] + 256 * data[3] + 65536 * data[4] = CallAddress
        /\ call = "read_variable" =>
              /\ data[1] = 16 + CallLength
              /\ SubSeq(data, 5, 8) = <<0, 0, 0, 0>>
        /\ call = "write_variable" =>
              /\ data[1] = 32 + CallLength
              /\ Wide(data[7] + 256 * data[8], data[5] + 256 * data[6])
                     = Low32(Val(rv_args.value))

\* a write of -5 to the last variable of a GATE, whose address is 129
C7_Witness ==
    /\ call = "write_variable" /\ sent # <<>>
    /\ current_board = Some("GATE") /\ rv_args.var_index = 50
    /\ rv_args.value = Some(ToWide(-5))
    /\ sent[1].data = <<36, 129, 0, 0, 251, 255, 255, 255>>

\* the value a response's payload stands for, as C8 states it
StatedValue(data) ==
    LET v == Wide(data[7] + 256 * data[8], data[5] + 256 * data[6])
        tag == data[1] % 8
    IN IF tag = 1 /\ WideGreater(v, ToWide(127)) THEN WideMinus(v, ToWide(256))
       ELSE IF tag = 2 /\ WideGreater(v, ToWide(32767)) THEN WideMinus(v, ToWide(65536))
       ELSE IF tag = 4 /\ WideGreater(v, ToWide(2147483647)) THEN WideMinus(v, TwoTo32)
       ELSE v

\* the decoding boundaries C8 lists: tag, bytes 4..7, value
StatedBoundaries ==
    {<<1, <<127, 0, 0, 0>>, ToWide(127)>>,
     <<1, <<128, 0, 0, 0>>, ToWide(-128)>>,
     <<2, <<255, 127, 0, 0>>, ToWide(32767)>>,
     <<2, <<0, 128, 0, 0>>, ToWide(-32768)>>,
     <<4, <<255, 255, 255, 127>>, ToWide(2147483647)>>,
     <<4, <<0, 0, 0, 128>>, Wide(-32768, 0)>>,
     <<0, <<0, 0, 0, 128>>, Wide(32768, 0)>>,
     <<3, <<255, 255, 255, 255>>, Wide(65535, 65535)>>,
     <<2, <<52, 18, 0, 0>>, ToWide(4660)>>}

\* C8: a response on the expected identifier decodes to the little-endian
\* 32-bit value of bytes 4..7, made negative above 127, 32767 and 2147483647
\* under tags 1, 2 and 4 and left unsigned under any other tag.
C8_Decoding ==
    (ReadAnswered /\ Val(returned).ok) =>
        LET data == Val(recvs[1].message).data IN
        /\ Val(returned).value = StatedValue(data)
        /\ \A b \in StatedBoundaries :
              (data[1] = b[1] /\ SubSeq(data, 5, 8) = b[2]) => Val(returned).value = b[3]

\* the response [0x01, 0, 0, 0, 0x80, 0, 0, 0] on 0x30A read as -128
C8_Witness ==
    /\ ReadAnswered /\ Val(returned).ok
    /\ Val(recvs[1].message) = CANMessage(778, <<1, 0, 0, 0, 128, 0, 0, 0>>)
    /\ Val(returned).value = ToWide(-128)

\* lo <= value <= hi
Within(value, lo, hi) == ~WideGreater(lo, value) /\ ~WideGreater(value, hi)

\* the values that bytes 4..7 can carry under a tag
TagRange(tag, value) ==
    CASE tag = 1 -> Within(value, ToWide(0), ToWide(127))
      [] tag = 2 -> Within(value, ToWide(0), ToWide(32767))
      [] tag = 4 -> Within(value, Wide(-32768, 0), ToWide(2147483647))
      [] OTHER   -> Within(value, ToWide(0), Wide(65535, 65535))

\* C9: bytes 4..7 of the request write_variable sends for V, placed as bytes
\* 4..7 of a response of tag 1, 2, 4 or an unsigned tag, decode to V again,
\* for every V tried that lies in 0..127, 0..32767, -2^31..2^31-1 or
\* 0..2^32-1 respectively.
C9_RoundTrip ==
    (call = "write_variable" /\ sent # <<>>) =>
        \A tag \in {0, 1, 2, 4} :
            TagRange(tag, Val(rv_args.value)) =>
                decode_value(<<tag, 0, 0, 0>> \o SubSeq(sent[1].data, 5, 8))
                    = Val(rv_args.value)

\* a write of -5, which is in the range of tag 4
C9_Witness ==
    /\ call = "write_variable" /\ sent # <<>>
    /\ rv_args.value = Some(ToWide(-5))
    /\ SubSeq(sent[1].data, 5, 8) = <<251, 255, 255, 255>>

\* C10: write_variable returns True exactly when a board is selected and its
\* one send_message returned ERR_OK; it calls receive_message never and
\* leaves the inbound queue as it is.
C10_WriteOnSend ==
    /\ [](call = "write_variable" =>
            /\ Len(results) <= 1
            /\ recvs = <<>>
            /\ returned = Some(TRUE) <=> (current_board # None /\ results = <<ERR_OK>>))
    /\ [][(call' = "write_variable" /\ <<rv_args, history>>' # <<rv_args, history>>)
              => rxq' = rxq]_vars

\* a write that returned True with two frames waiting in the queue
C10_Witness ==
    /\ call = "write_variable" /\ returned = Some(TRUE)
    /\ Len(rxq) = 2

----------------------------------------------------------------------------
(* Failures of read_variable and write_variable *)

\* the failure result of the call: (False, 0) of a read, False of a write
CallFailed ==
    IF call = "read_variable" THEN ReadFailed ELSE returned = Some(FALSE)

\* C11: read_variable and write_variable return and never raise; with no
\* board selected they fail with no frame transmitted; a failed send, a
\* receive that timed out or reported a transport error, a frame of another
\* identifier than the expected one and a response of fewer than 8 bytes
\* each make the call fail, a read with value 0.
C11_FailureResults ==
    (call \in {"read_variable", "write_variable"} /\ rv_pc = "idle") =>
        /\ Len(returned) = 1
        /\ current_board = None =>
              (CallFailed /\ sent = <<>> /\ results = <<>> /\ recvs = <<>>)
        /\ (results # <<>> /\ results[1] # ERR_OK) => (CallFailed /\ sent = <<>>)
        /\ \A k \in 1..Len(recvs) :
              \/ recvs[k].result = ERR_OK
                    /\ recvs[k].message # None
                    /\ Val(recvs[k].message).id
                          = base_used(Val(current_board), rv_args.can_id_base)
                              + 10 + 16 * rv_args.board_index
                    /\ Len(Val(recvs[k].message).data) >= 8
              \/ CallFailed

\* a read that failed on a response of 7 bytes on the expected identifier
C11_Witness ==
    /\ ReadAnswered /\ ReadFailed
    /\ current_board = Some("PCU") /\ rv_args.can_id_base = None
    /\ rv_args.board_index = 0
    /\ recvs[1].message = Some(CANMessage(778, <<2, 0, 0, 0, 52, 18, 0>>))

\* the kind of failure of a read or write that was made with these fields
FailureKind(board, res, rcv, args) ==
    IF board = None THEN "NoBoardSelected"
    ELSE IF res # <<>> /\ res[1] # ERR_OK THEN "SendFailed"
    ELSE IF rcv # <<>> /\ (rcv[1].result # ERR_OK \/ rcv[1].message = None)
    THEN "NoResponse"
    ELSE IF rcv # <<>>
            /\ Val(rcv[1].message).id
                  # base_used(Val(board), args.can_id_base) + 10 + 16 * args.board_index
    THEN "WrongResponder"
    ELSE "none"

\* the kind of failure of the read or write that has just returned
FailedAs ==
    IF call \in {"read_variable", "write_variable"} /\ rv_pc = "idle"
    THEN FailureKind(current_board, results, recvs, rv_args)
    ELSE "none"

\* C12 as written: two calls of the same operation that failed in different
\* kinds (NoBoardSelected, SendFailed, NoResponse, WrongResponder) returned
\* results the caller can tell apart.
C12_Distinguishable ==
    [][(FailedAs # "none" /\ FailedAs' # "none" /\ FailedAs' # FailedAs
            /\ call' = call)
          => returned' # returned]_vars

\* C12, amended: a failed read_variable returns (False, 0) and a failed
\* write_variable returns False whatever the kind of the failure, so two
\* calls of the same operation that failed return equal results.
C12_SameResult ==
    /\ [](FailedAs # "none" => CallFailed)
    /\ [][(FailedAs # "none" /\ FailedAs' # "none" /\ call' = call)
             => returned' = returned]_vars

\* a read that failed on a frame of another identifier
C12_Witness ==
    /\ FailedAs = "WrongResponder" /\ ReadFailed
    /\ Val(recvs[1].message).id = 773

\* the call names a variable or a board type that the catalog does not have
OutOfCatalog ==
    /\ call \in {"read_variable", "write_variable"}
    /\ current_board # None
    /\ \/ Val(current_board) \notin KnownBoards
       \/ rv_args.var_index < 0
       \/ rv_args.var_index >= Len(table_addr(Val(current_board)))

\* C13: a read or write of a var_index outside the selected board's address
\* table (negative indices included), or of a board type outside the 12
\* classes, reports a failure: no request for the substituted address 0 or
\* base 0x300 is transmitted and then reported as a success.
C13_NoSilentDefault ==
    (OutOfCatalog /\ rv_pc = "idle") => CallFailed

----------------------------------------------------------------------------
(* Properties of the board catalog *)

\* the smaller of two integers
Min(a, b) == IF a < b THEN a ELSE b

\* C14: the transfer length a request of read_variable or write_variable
\* carries is in 0..4; for an index of the table that is not the last it is
\* min(4, table_addr[index + 1] - table_addr[index]), and for the last index
\* of the table it is 4.
C14_TransferLength ==
    (call \in {"read_variable", "write_variable"} /\ sent # <<>>) =>
        LET length == sent[1].data[1] - (IF call = "read_variable" THEN 16 ELSE 32)
            table == table_addr(Val(current_board))
            index == rv_args.var_index
        IN /\ 0 <= length /\ length <= 4
           /\ (0 <= index /\ index < Len(table) - 1) =>
                 length = Min(4, table[index + 2] - table[index + 1])
           /\ index = Len(table) - 1 => length = 4

\* a write of variable 5 of a PCU, which is one byte long
C14_Witness ==
    /\ call = "write_variable" /\ sent # <<>>
    /\ current_board = Some("PCU") /\ rv_args.var_index = 5
    /\ sent[1].data[1] = 33

\* C15: get_variable_address returns table_addr[index] for 0 <= index <
\* len(table_addr) and 0 otherwise; get_variable_name returns
\* variable_names[index] for 0 <= index < len(variable_names) and
\* "Unknown_Var_<index>" otherwise.
C15_Lookups ==
    LET index == rv_args.var_index IN
    /\ call = "get_variable_address" =>
          LET table == table_addr(Val(current_board)) IN
          /\ (0 <= index /\ index < Len(table)) => returned = Some(table[index + 1])
          /\ (index < 0 \/ index >= Len(table)) => returned = Some(0)
    /\ call = "get_variable_name" =>
          LET names == variable_names(Val(current_board)) IN
          /\ (0 <= index /\ index < Len(names)) => returned = Some(names[index + 1])
          /\ (index < 0 \/ index >= Len(names)) =>
                returned = Some("Unknown_Var_" \o ToString(index))
          /\ index = -1 => returned = Some("Unknown_Var_-1")
          /\ index = 52 => returned = Some("Unknown_Var_52")

\* the name of index 50 of a TCU, which has an address and no name
C15_Witness ==
    /\ call = "get_variable_name"
    /\ current_board = Some("TCU") /\ rv_args.var_index = 50
    /\ returned = Some("Unknown_Var_50")

----------------------------------------------------------------------------
(* Properties of CANCommunication *)

\* C16: is_connected starts False, becomes True only by a connect that
\* returns ERR_OK, and becomes False by a disconnect that returns ERR_OK or
\* by a failed connect; send_message, receive_message, set_message_filter
\* and get_status change neither is_connected nor the handle; and
\* is_connected implies that the handle is not None.
C16_ConnectionStates ==
    /\ [](/\ call = "none" => ~is_connected
          /\ is_connected => bus # None
          /\ (call = "connect" /\ returned = Some(ERR_OK)) => is_connected
          /\ (call = "connect" /\ returned # Some(ERR_OK)) => ~is_connected
          /\ (call = "disconnect" /\ returned = Some(ERR_OK)) => ~is_connected)
    /\ [][(~is_connected /\ is_connected')
             => (call' = "connect" /\ returned' = Some(ERR_OK))]_vars
    /\ [][(is_connected /\ ~is_connected')
             => \/ call' = "disconnect" /\ returned' = Some(ERR_OK)
                \/ call' = "connect" /\ returned' = Some(ERR_ILLHW)]_vars
    /\ [][call' \in {"send_message", "receive_message",
                      "set_message_filter", "get_status"}
             => UNCHANGED <<bus, is_connected>>]_vars

\* a connect that failed on a connected transport: the flag is down and the
\* handle of the earlier endpoint is still there
C16_Witness ==
    /\ call = "connect" /\ returned = Some(ERR_ILLHW)
    /\ ~is_connected /\ bus # None

\* C17: disconnect called with is_connected False and no handle returns
\* ERR_OK, shuts nothing down and leaves the transport as it is; a
\* disconnect after a disconnect that returned ERR_OK changes nothing.
C17_DisconnectIdempotent ==
    /\ [][(~is_connected /\ bus = None /\ call' = "disconnect")
             => /\ returned' = Some(ERR_OK)
                /\ inner' = <<>>
                /\ UNCHANGED <<transport, rxq>>]_vars
    /\ [][(call = "disconnect" /\ returned = Some(ERR_OK) /\ call' = "disconnect")
             => /\ returned' = Some(ERR_OK)
                /\ inner' = <<>>
                /\ UNCHANGED <<transport, rxq, boot, retain>>]_vars

\* a disconnect that had nothing to shut down, with a filter kept
C17_Witness ==
    /\ call = "disconnect" /\ returned = Some(ERR_OK) /\ inner = <<>>
    /\ bus = None /\ ~is_connected /\ message_filter # None

\* C18: send_message with is_connected False returns an error and transmits
\* nothing; receive_message with is_connected False returns an error with
\* no message and no timestamp; neither changes the transport or the queue.
C18_NotConnected ==
    /\ [][(~is_connected /\ call' = "send_message")
             => /\ returned' = Some(ERR_ILLHW)
                /\ sent' = <<>>
                /\ UNCHANGED <<transport, rxq>>]_vars
    /\ [][(~is_connected /\ call' = "receive_message")
             => /\ returned' = Some([result |-> ERR_ILLHW, message |-> None,
                                timestamp |-> None])
                /\ UNCHANGED <<transport, rxq>>]_vars

\* a send refused after a failed connect, with the handle of the earlier
\* endpoint still there and a frame still waiting in its queue
C18_Witness ==
    /\ call = "send_message" /\ returned = Some(ERR_ILLHW) /\ sent = <<>>
    /\ ~is_connected /\ bus # None /\ rxq # <<>>

----------------------------------------------------------------------------
(* program_device and the loader *)

\* C19: when load_hex_file returns False (an unreadable file, or an error
\* while parsing), program_device returns False and no send is attempted:
\* no frame is transmitted, the reset command included.
C19_NoSendWithoutImage ==
    (call = "program_device" /\ inner = <<Inner("load_hex_file", FALSE)>>) =>
        /\ pc = "idle"
        /\ returned = Some(FALSE)
        /\ sent = <<>> /\ results = <<>>

\* an upload refused on a connected transport for a line that did not
\* parse, after a data record whose words are left in the buffer
C19_Witness ==
    /\ call = "program_device" /\ inner = <<Inner("load_hex_file", FALSE)>>
    /\ is_connected /\ bus # None
    /\ data_bytes # None /\ Val(data_bytes) # <<>>
    /\ returned = Some(FALSE) /\ sent = <<>>

----------------------------------------------------------------------------
(* Correlation of a read with its response *)

\* C20: a read_variable that succeeds returns the value of a frame that
\* arrived after its request was sent: the inbound queue is first in, first
\* out, so the frame it received is one that was already waiting (a late
\* answer to an earlier read, for example) exactly when some frame was
\* waiting as the call began, and then the read does not succeed.
C20_OwnResponse ==
    (ReadAnswered /\ Val(returned).ok) => stale = 0

----------------------------------------------------------------------------
(* send_data and its cursor *)

\* C21: send_data returns ERR_PARMVAL, transmitting nothing, only when no
\* image has been loaded or the word buffer is empty: called with a cursor
\* (0 right after load_hex_file included) on a non-empty buffer, it builds a
\* data frame and hands it to the transport.
C21_SendDataTransmits ==
    (call = "send_data" /\ data_ptr # None /\ ~NoImage(data_bytes)) =>
        /\ results # <<ERR_PARMVAL>>
        /\ sent # <<>> \/ msg_failed

\* C22: once load_hex_file has succeeded, whatever send_data, send_address,
\* send_command and program_device calls follow and whichever of their sends
\* fail, the cursor stays within the buffer: 0 <= data_ptr <= len(data_bytes).
C22_CursorInRange ==
    (data_ptr # None /\ data_bytes # None) =>
        /\ 0 <= Val(data_ptr)
        /\ Val(data_ptr) <= Len(Val(data_bytes))

\* send_data called on a connected transport with an image of two full
\* records loaded, after an upload of that image was abandoned
C22_Witness ==
    /\ call = "send_data" /\ is_connected
    /\ data_ptr # None /\ data_bytes # None
    /\ Len(Val(data_bytes)) = 2 * MaxWords
    /\ upload_step = 5

\* program_device has returned False from one of its send_data calls
DataAbort ==
    /\ call = "program_device" /\ pc = "idle" /\ returned = Some(FALSE)
    /\ Len(results) >= 4
    /\ (Len(results) - 3) % 9 # 0

\* the address frames and the send_data calls of the upload so far
AddressSends == IF Len(results) < 3 THEN 0 ELSE ((Len(results) - 3) \div 9) + 1
DataSends == IF Len(results) < 3 THEN 0 ELSE Len(results) - 2 - AddressSends

\* the cursor after that many send_data calls that built a frame each
Reached ==
    IF 4 * DataSends < Len(Val(data_bytes)) THEN 4 * DataSends
                                            ELSE Len(Val(data_bytes))

AddressFrames == Cardinality({k \in 1..Len(sent) : sent[k].id = pd_dev + 3})
DataFrames == Cardinality({k \in 1..Len(sent) : sent[k].id = pd_dev + 4})

----------------------------------------------------------------------------
(* read_variable beside the monitor thread *)

\* the identifier on which the pending read expects its response
PendingResponseId == ListedBase + 10 + 16 * rv_args.board_index

\* C26: while the monitor thread receives on the same CANCommunication, the
\* response to a pending read_variable goes to that read_variable and makes
\* it succeed: a step that takes a full response frame with the expected
\* identifier from the head of the inbound queue while a read is waiting is
\* that read's own receive, and the read returns success.
C26_ResponseReachesRead ==
    [][(/\ rv_pc = "wait" /\ rxq # <<>>
        /\ Head(rxq).id = PendingResponseId /\ Len(Head(rxq).data) = 8
        /\ rxq' = Tail(rxq))
       => /\ rv_pc' = "idle"
          /\ recvs' = <<Received(ERR_OK, Some(Head(rxq)), Some("CANTimestamp"))>>
          /\ Val(returned').ok]_vars

----------------------------------------------------------------------------
(* The step counter across uploads *)

\* C27: reset step.  In every call of program_device, a second call on the
\* same BootloaderProtocol included, the first frame transmitted has the
\* identifier device_id and 8 zero bytes; when that send succeeds the step
\* counter is 1, and when it fails the step counter is 0 and program_device
\* returns False without another send.
C27_ResetStep ==
    (call = "program_device" /\ Len(results) >= 1) =>
        /\ results[1] = ERR_OK =>
              /\ sent[1] = CANMessage(pd_dev, Zeros(8))
              /\ Len(results) = 1 => upload_step = 1
        /\ results[1] # ERR_OK =>
              /\ sent = <<>> /\ Len(results) = 1
              /\ upload_step = 0
              /\ pc = "idle" /\ returned = Some(FALSE)

\* The sends of program_device(device_id, image) in the order it makes them,
\* as this code makes them: the frame of each, None for a send_data that
\* returns before it has a frame.  Only the device and the words loaded
\* appear in it.
UploadPlan(device_id, words) ==
    <<Some(CANMessage(device_id, Zeros(8))),
      Some(CANMessage(device_id + 2, Zeros(8)))>>
    \o (IF words = <<>>
        THEN <<Some(CANMessage(device_id + 5, Zeros(8)))>>
        ELSE <<Some(CANMessage(device_id + 3, Zeros(8))), None>>)

\* the frames of a plan whose sends had these results
RECURSIVE PlanFrames(_, _, _)
PlanFrames(plan, res, k) ==
    IF k > Len(res) THEN <<>>
    ELSE (IF res[k] = ERR_OK THEN <<Val(plan[k])>> ELSE <<>>)
         \o PlanFrames(plan, res, k + 1)

\* C28: the step counter never drives the upload.  The frames program_device
\* transmits and the value it returns are a function of the device, the
\* image and the results of its sends alone, so two runs with the same image
\* and the same results transmit the same frames and return the same value
\* whatever upload_step, pic_address and data_ptr an earlier session left.
C28_SameFramesSameResult ==
    (call = "program_device" /\ inner = <<Inner("load_hex_file", TRUE)>>) =>
        LET plan == UploadPlan(pd_dev, Val(data_bytes))
            n == Len(results)
        IN /\ n <= Len(plan)
           /\ sent = PlanFrames(plan, results, 1)
           /\ \A k \in 1..n : (plan[k] = None) => results[k] # ERR_OK
           /\ \A k \in 1..(n - 1) : results[k] = ERR_OK
           /\ returned = IF n > 0 /\ results[n] # ERR_OK THEN Some(FALSE)
                    ELSE IF n = Len(plan) THEN Some(TRUE)
                    ELSE None

\* a second upload on the same BootloaderProtocol, begun with the step
\* counter at 5 and the cursor at 0 from the first, after its reset command
C28_Witness ==
    /\ call = "program_device" /\ results = <<ERR_OK>>
    /\ upload_step = 6 /\ data_ptr = Some(0)
    /\ Val(data_bytes) # <<>>
    /\ sent = <<CANMessage(pd_dev, Zeros(8))>>

----------------------------------------------------------------------------
(* The image loader *)

\* the lines of the file of the load_hex_file call
LoadedLines == rv_args.filename.lines

\* the lines before the first end-of-file record (all of them without one)
BeforeEof ==
    LET eofs == {k \in 1..Len(LoadedLines) : LoadedLines[k].kind = "eof"} IN
    IF eofs = {} THEN LoadedLines
    ELSE SubSeq(LoadedLines, 1, (CHOOSE k \in eofs : \A j \in eofs : k <= j) - 1)

\* the words of the type-0 records among these lines, in their order
RECURSIVE RecordsWords(_)
RecordsWords(lines) ==
    IF lines = <<>> THEN <<>>
    ELSE (IF Head(lines).kind \in {"data", "odd"} THEN Head(lines).words
                                                   ELSE <<>>)
         \o RecordsWords(Tail(lines))

\* a line that is blank, no record, or a record written as Intel HEX has it
WellFormed(line) ==
    line.kind \in {"blank", "comment", "data", "odd", "eof", "other"}

\* C29: load_hex_file of a readable image whose lines up to the end-of-file
\* record are well formed returns True, with the cursor at 0 and the buffer
\* holding exactly the byte_count div 2 words of each type-0 record before
\* the first type-1 record, in file order: nothing of the lines after that
\* record, of lines that do not start with ':', of records of other types,
\* or of the image loaded before.
C29_LoadedImage ==
    (/\ call = "load_hex_file" /\ rv_args.filename.readable
     /\ \A k \in 1..Len(BeforeEof) : WellFormed(BeforeEof[k])) =>
        /\ returned = Some(TRUE)
        /\ data_bytes = Some(RecordsWords(BeforeEof))
        /\ data_ptr = Some(0)

\* an image of an end-of-file record followed by a data record, loaded
\* into an empty buffer with the cursor at 0
C29_Witness ==
    /\ call = "load_hex_file" /\ rv_args.filename.readable
    /\ Len(LoadedLines) = 2
    /\ LoadedLines[1].kind = "eof" /\ LoadedLines[2].kind = "data"
    /\ data_bytes = Some(<<>>) /\ data_ptr = Some(0) /\ returned = Some(TRUE)

\* C30, as claimed: a malformed line (a field that is not hexadecimal, a
\* payload shorter than its byte count) is skipped: load_hex_file of a
\* readable image returns True, and the buffer holds the words of the
\* well-formed data records before the end-of-file record.
C30_MalformedSkipped ==
    (call = "load_hex_file" /\ rv_args.filename.readable) =>
        /\ returned = Some(TRUE)
        /\ data_bytes = Some(RecordsWords(BeforeEof))

\* a line on which int() raises: its byte count is not hexadecimal, or it
\* ends before the last word that its byte count announces
RaisesOn(line) == line.kind \in {"nothex", "cut"}

\* the lines up to the first on which int() raises, that line included
UpToRaise(lines) ==
    LET bad == {k \in 1..Len(lines) : RaisesOn(lines[k])} IN
    IF bad = {} THEN lines
    ELSE SubSeq(lines, 1, CHOOSE k \in bad : \A j \in bad : k <= j)

\* the words read from these lines: those of a data record; those of a
\* record that ends early, read before it ends; and for a record whose
\* payload is one word short, its words and its checksum read as a word
RECURSIVE WordsRead(_)
WordsRead(lines) ==
    IF lines = <<>> THEN <<>>
    ELSE LET line == Head(lines) IN
         (CASE line.kind \in {"data", "odd", "cut"} -> line.words
            [] line.kind = "short" ->
                 Append(line.words,
                        (256 - ((2 * Len(line.words) + 2 + SumBytes(line.words))
                                % 256)) % 256)
            [] OTHER -> <<>>)
         \o WordsRead(Tail(lines))

\* C30, amended: a malformed line before the end-of-file record is not
\* skipped.  When int() raises on it, load_hex_file returns False, the
\* buffer holds the words read up to that point and the cursor is left as
\* it was; a record whose payload is shorter than its byte count but on
\* which int() does not raise is read as a data record, its last word taken
\* from the characters of the checksum, and the load goes on.
C30_MalformedAborts ==
    [][(/\ call' = "load_hex_file" /\ rv_args'.filename.readable
        /\ \E k \in 1..Len(BeforeEof') : ~WellFormed(BeforeEof'[k]))
       => /\ data_bytes' = Some(WordsRead(UpToRaise(BeforeEof')))
          /\ IF \E k \in 1..Len(BeforeEof') : RaisesOn(BeforeEof'[k])
             THEN returned' = Some(FALSE) /\ data_ptr' = data_ptr
             ELSE returned' = Some(TRUE) /\ data_ptr' = Some(0)]_vars

\* a load that stopped at a record ending early, with the word of that
\* record in the buffer and the cursor of the image loaded before
C30_Witness ==
    /\ call = "load_hex_file" /\ rv_args.filename.readable
    /\ Len(LoadedLines) = 2
    /\ LoadedLines[1].kind = "cut" /\ LoadedLines[2].kind = "data"
    /\ returned = Some(FALSE) /\ data_bytes = Some(<<4660>>) /\ data_ptr = Some(0)

----------------------------------------------------------------------------
(* The frames of an upload *)

\* byte i (from 0) of the data frame built with the cursor at ptr: the low
\* byte of a word at an even index and its high byte at the next odd one,
\* 0xFF once the words have run out
DataByte(words, ptr, i) ==
    LET at == ptr + (i \div 2) IN
    IF at >= Len(words) THEN 255
    ELSE IF i % 2 = 0 THEN words[at + 1] % 256
    ELSE (words[at + 1] \div 256) % 256

\* the positions in sent of the data frames, in order
DataPositions == {k \in 1..Len(sent) : sent[k].id = pd_dev + 4}

AddressBytes(address) ==
    <<address % 256, (address \div 256) % 256, 0, 0, 0, 0, 0, 0>>

\* the positions in sent of the address frames, in order
AddressPositions == {k \in 1..Len(sent) : sent[k].id = pd_dev + 3}

\* C32: every address frame has the identifier device_id + 3 and 8 bytes,
\* the low 16 bits of the address in bytes 0..1, low byte first, and 0 in
\* bytes 2..7; in each program_device call the frame after start-load is an
\* address frame when the image has words, the first address frame carries 0
\* and the k-th carries 64 * (k - 1).
C32_AddressFrames ==
    /\ call = "program_device" =>
          /\ (Len(sent) >= 3 /\ Val(data_bytes) # <<>>) => 3 \in AddressPositions
          /\ \A k \in AddressPositions :
               LET m == Cardinality({j \in AddressPositions : j <= k}) IN
               sent[k].data = AddressBytes(64 * (m - 1))
    /\ (call = "send_address" /\ sent # <<>>) =>
          sent = <<CANMessage(rv_args.address_id, AddressBytes(rv_args.address))>>

\* the address frame of an upload begun after an earlier call had sent an
\* address frame for 0x12345 on its own
C32_Witness ==
    /\ call = "program_device" /\ Len(sent) = 3
    /\ sent[3] = CANMessage(pd_dev + 3, <<0, 0, 0, 0, 0, 0, 0, 0>>)
    /\ rv_args # None /\ "address" \in DOMAIN rv_args /\ rv_args.address = 74565

----------------------------------------------------------------------------
(* The endpoints of a transport *)

\* the latest call opened an endpoint / shut one down (a step that changes
\* history is a call)
Opened == \E i \in DOMAIN inner : inner[i] = Inner("Bus", TRUE)
ShutDown == \E i \in DOMAIN inner : inner[i] = Inner("shutdown", TRUE)

\* C33: every endpoint opened by connect is shut down before the same
\* transport opens another endpoint or drops its handle: a call on a
\* transport that holds an endpoint opens an endpoint or clears the handle
\* only if it shut an endpoint down, and an endpoint that was opened is the
\* one the handle refers to.
C33_OneEndpoint ==
    /\ [][(history' # history /\ bus # None /\ (Opened' \/ bus' = None))
             => ShutDown']_vars
    /\ [][(history' # history /\ Opened') => bus' # None]_vars

----------------------------------------------------------------------------
(* The descriptors of the board classes *)

\* C34: for each board class the address table has at most 51 entries in
\* ascending order and the sequence of variable names has the length of the
\* address table, so the name looked up for an index that has an address
\* is a name of the list and not the placeholder.
C34_TablesAndNames ==
    (current_board # None /\ Val(current_board) \in KnownBoards) =>
        LET table == table_addr(Val(current_board))
            names == variable_names(Val(current_board))
        IN  /\ Len(table) <= TABLE_ADDR_MAX
            /\ \A i \in 1..(Len(table) - 1) : table[i] < table[i + 1]
            /\ Len(names) = Len(table)
            /\ (/\ call = "get_variable_name"
                /\ 0 <= rv_args.var_index /\ rv_args.var_index < Len(table))
                  => /\ returned = Some(names[rv_args.var_index + 1])
                     /\ returned # Some(UnknownVar(rv_args.var_index))

----------------------------------------------------------------------------
(* The identifiers of the two protocols on one base *)

\* the RetainVar identifiers of the device whose base is the device_id of
\* the upload, for the board indexes 0..MaxBoardIndex
RetainIds(board_indexes) ==
    {request_can_id(pd_dev, b) : b \in board_indexes}
    \cup {expected_response_id(pd_dev, b) : b \in board_indexes}

\* C35: with device_id = can_id_base, no frame of an upload is on a
\* RetainVar request identifier or response identifier of any board index.
C35_IdsDisjoint ==
    call = "program_device" =>
        \A k \in DOMAIN sent : sent[k].id \notin RetainIds(0..MaxBoardIndex)

\* C35 as amended: the frames on device_id + {0, 2, 3, 4} are on no
\* RetainVar identifier; the verify frame, on device_id + 5, is on the
\* request identifier of board index 0 and on no other RetainVar identifier.
C35_IdsApart ==
    call = "program_device" =>
        \A k \in DOMAIN sent :
            IF sent[k].id = pd_dev + 5
            THEN /\ sent[k].id = request_can_id(pd_dev, 0)
                 /\ sent[k].id \notin RetainIds(1..MaxBoardIndex)
                 /\ sent[k].id # expected_response_id(pd_dev, 0)
            ELSE /\ sent[k].id \in {pd_dev + d : d \in {0, 2, 3, 4}}
                 /\ sent[k].id \notin RetainIds(0..MaxBoardIndex)

\* an upload of an image without data words that got as far as its verify
\* frame, after its reset and start-load frames
C35_Witness ==
    /\ call = "program_device" /\ returned = Some(TRUE) /\ Len(sent) = 3
    /\ sent[1].id = pd_dev /\ sent[2].id = pd_dev + 2
    /\ sent[3].id = pd_dev + 5 /\ sent[3].id = request_can_id(pd_dev, 0)

----------------------------------------------------------------------------
(* The widths the tags declare *)

\* the signed range of the width a tag declares
SignedRange(tag, value) ==
    CASE tag = 1 -> Within(value, ToWide(-128), ToWide(127))
      [] tag = 2 -> Within(value, ToWide(-32768), ToWide(32767))
      [] tag = 4 -> Within(value, Wide(-32768, 0), ToWide(2147483647))
      [] OTHER   -> FALSE

\* C36: the value read_variable returns for a response on the expected
\* identifier lies in the signed range of the width its tag declares
\* (8 bits for tag 1, 16 for tag 2, 32 for tag 4), and the bytes
\* write_variable sends for a negative V decode to V under each tag whose
\* signed range contains V.
C36_SignedRange ==
    /\ (ReadAnswered /\ Val(returned).ok) =>
          LET tag == Val(recvs[1].message).data[1] % 8 IN
          tag \in {1, 2, 4} => SignedRange(tag, Val(returned).value)
    /\ (call = "write_variable" /\ sent # <<>> /\ Val(rv_args.value).hi < 0) =>
          \A tag \in {1, 2, 4} :
              SignedRange(tag, Val(rv_args.value)) =>
                  decode_value(<<tag, 0, 0, 0>> \o SubSeq(sent[1].data, 5, 8))
                      = Val(rv_args.value)

----------------------------------------------------------------------------
(* Termination of an upload *)

\* C37: program_device always terminates: for every image and every
\* pattern of send outcomes a call that has started its sends comes to its
\* return, of True or of False, and never leaves by an exception.
C37_Terminates ==
    (call = "program_device" /\ pc # "idle")
        ~> (call = "program_device" /\ pc = "idle"
            /\ Len(returned) = 1 /\ Val(returned) \in BOOLEAN)

\* an upload that entered the chunk loop and returned False from its first
\* iteration, after the address frame
C37_Witness ==
    /\ call = "program_device" /\ pc = "idle" /\ returned = Some(FALSE)
    /\ results = <<ERR_OK, ERR_OK, ERR_OK, ERR_PARMVAL>>
    /\ Len(Val(data_bytes)) > Val(data_ptr)

====
